---- MODULE Spec2Model ----
(***************************************************************************)
(* Model of the streaming core of dify-ai-provider:                        *)
(*   - ThinkTagParser            (src/src/stream-parser.ts)                *)
(*   - parseToolCalls            (src/src/stream-parser.ts)                *)
(*   - the doStream transform    (src/src/dify-chat-settings.ts)           *)
(*   - formatToolsPrompt         (src/src/stream-parser.ts)                *)
(*   - getRequestBody            (src/src/dify-chat-settings.ts)           *)
(*                                                                         *)
(* A JavaScript string is a sequence of one-character strings.  An absent  *)
(* (undefined) string-valued field is the empty sequence or "" where the   *)
(* code only tests the field for truthiness.                               *)
(***************************************************************************)
EXTENDS Integers, Sequences, FiniteSets, TLC

\* ------------------------------------------------------------------------
\* Strings
\* ------------------------------------------------------------------------

\* a departure from IsSpace: no character counts as white space
NeverSpace(ch) == FALSE

\* String.prototype.trim() === "" for a single character
IsSpace(ch) == ch \in {" ", "\n", "\t"}

\* the places of s that hold something other than white space
Inked(s) == {i \in 1..Len(s) : ~IsSpace(s[i])}

\* s from place lo to place hi
Between(s, lo, hi) == SubSeq(s, lo, hi)

\* String.prototype.trim(): s from its first to its last place that is not
\* white space
TrimTo(s, inked) ==
  IF inked = {} THEN <<>>
  ELSE Between(s, CHOOSE i \in inked : \A j \in inked : i <= j,
                  CHOOSE i \in inked : \A j \in inked : j <= i)

Trim(s) == TrimTo(s, Inked(s))

\* String.prototype.startsWith: p is a prefix of s
StartsWith(s, p) == Len(p) <= Len(s) /\ SubSeq(s, 1, Len(p)) = p

\* String.prototype.toLowerCase over the letters the model uses
LowerChar(ch) ==
  CASE ch = "T" -> "t"
    [] ch = "U" -> "u"
    [] OTHER -> ch

ToLowerCase(s) == [i \in 1..Len(s) |-> LowerChar(s[i])]

OpenTag  == <<"<", "t", "h", "i", "n", "k", ">">>
CloseTag == <<"<", "/", "t", "h", "i", "n", "k", ">">>

\* ------------------------------------------------------------------------
\* ThinkTagParser
\* ------------------------------------------------------------------------

\* field initialisers of class ThinkTagParser
NewParser ==
  [ state           |-> "text",
    buffer          |-> <<>>,
    accumulated     |-> <<>>,
    hasStarted      |-> FALSE,
    closed          |-> FALSE,
    textAccumulated |-> <<>>,
    inString        |-> FALSE,
    escape          |-> FALSE ]

Seg(type, content) == [type |-> type, content |-> content]

\* One iteration of the for loop of feed: st = [p |-> parser, raw |-> segments]
FeedChar(st, ch) ==
  LET p   == st.p
      raw == st.raw
      pushText == Append(raw, Seg("text", <<ch>>))
  IN
  IF ~p.hasStarted /\ IsSpace(ch) THEN st
  ELSE
    LET q == [p EXCEPT !.hasStarted = TRUE] IN
    IF q.inString THEN
      IF q.escape THEN [p |-> [q EXCEPT !.escape = FALSE], raw |-> pushText]
      ELSE IF ch = "\\" THEN [p |-> [q EXCEPT !.escape = TRUE], raw |-> pushText]
      ELSE IF ch = "\"" THEN [p |-> [q EXCEPT !.inString = FALSE], raw |-> pushText]
      ELSE [p |-> q, raw |-> pushText]
    ELSE IF ch = "\"" THEN [p |-> [q EXCEPT !.inString = TRUE], raw |-> pushText]
    ELSE
      CASE q.state = "text" ->
             IF ch = "<" /\ ~q.closed
             THEN [p |-> [q EXCEPT !.state = "maybe-open", !.buffer = <<"<">>],
                   raw |-> raw]
             ELSE [p |-> q, raw |-> pushText]
        [] q.state = "maybe-open" ->
             LET b == Append(q.buffer, ch) IN
             IF StartsWith(OpenTag, b)
             THEN IF b = OpenTag
                  THEN [p |-> [q EXCEPT !.state = "reasoning", !.buffer = <<>>],
                        raw |-> raw]
                  ELSE [p |-> [q EXCEPT !.buffer = b], raw |-> raw]
             ELSE [p |-> [q EXCEPT !.state = "text", !.buffer = <<>>],
                   raw |-> Append(raw, Seg("text", b))]
        [] q.state = "reasoning" ->
             IF ch = "<"
             THEN [p |-> [q EXCEPT !.state = "maybe-close", !.buffer = <<"<">>],
                   raw |-> raw]
             ELSE [p |-> q, raw |-> Append(raw, Seg("reasoning", <<ch>>))]
        [] q.state = "maybe-close" ->
             LET b == Append(q.buffer, ch) IN
             IF StartsWith(CloseTag, b)
             THEN IF b = CloseTag
                  THEN [p |-> [q EXCEPT !.state = "text", !.buffer = <<>>,
                                        !.closed = TRUE],
                        raw |-> raw]
                  ELSE [p |-> [q EXCEPT !.buffer = b], raw |-> raw]
             ELSE [p |-> [q EXCEPT !.state = "reasoning", !.buffer = <<>>],
                   raw |-> Append(raw, Seg("reasoning", b))]

\* the for loop of feed over chunk[lo..hi], in two halves: the iterations of
\* the lower half are over (FeedRest reads their result) before those of the
\* upper half begin, so the depth of the evaluation grows with the logarithm
\* of the length of the chunk
RECURSIVE FeedLoop(_, _, _, _)
FeedRest(st, chunk, lo, hi) ==
  IF Len(st.raw) >= 0 THEN FeedLoop(st, chunk, lo, hi) ELSE st

FeedLoop(st, chunk, lo, hi) ==
  IF lo > hi THEN st
  ELSE IF lo = hi THEN FeedChar(st, chunk[lo])
  ELSE FeedRest(FeedLoop(st, chunk, lo, (lo + hi) \div 2),
                chunk, (lo + hi) \div 2 + 1, hi)

\* a departure from MergeSegment: every raw segment is kept apart
KeepApart(merged, seg) == Append(merged, seg)

\* "Merge consecutive same-type segments"
\* one iteration of it
MergeSegment(merged, seg) ==
  IF Len(merged) > 0 /\ merged[Len(merged)].type = seg.type
  THEN [merged EXCEPT ![Len(merged)].content = @ \o seg.content]
  ELSE Append(merged, seg)

\* the iterations for raw[lo..hi], in two halves as in FeedLoop
RECURSIVE MergeSegments(_, _, _, _)
MergeRest(merged, raw, lo, hi) ==
  IF Len(merged) >= 0 THEN MergeSegments(merged, raw, lo, hi) ELSE merged

MergeSegments(merged, raw, lo, hi) ==
  IF lo > hi THEN merged
  ELSE IF lo = hi THEN MergeSegment(merged, raw[lo])
  ELSE MergeRest(MergeSegments(merged, raw, lo, (lo + hi) \div 2),
                 raw, (lo + hi) \div 2 + 1, hi)

\* concatenation of the contents of the text segments of segs
RECURSIVE TextOf(_)
TextOf(segs) ==
  IF segs = <<>> THEN <<>>
  ELSE (IF Head(segs).type = "text" THEN Head(segs).content ELSE <<>>)
       \o TextOf(Tail(segs))

\* a departure from FeedReturn: textAccumulated takes the segments of both
\* kinds
RECURSIVE AllOf(_)
AllOf(segs) ==
  IF segs = <<>> THEN <<>> ELSE Head(segs).content \o AllOf(Tail(segs))

FeedKeepsReasoning(p, merged) ==
  [p    |-> [p EXCEPT !.textAccumulated = p.textAccumulated \o AllOf(merged)],
   segs |-> merged]

\* the end of feed: textAccumulated takes the text of the merged segments,
\* which are returned
FeedReturn(p, merged) ==
  [p    |-> [p EXCEPT !.textAccumulated = p.textAccumulated \o TextOf(merged)],
   segs |-> merged]

FeedMerge(st) == FeedReturn(st.p, MergeSegments(<<>>, st.raw, 1, Len(st.raw)))

\* a departure from Feed: a tag begun in an earlier call is forgotten
FeedDropsBuffer(p, chunk) ==
  FeedMerge(FeedLoop(
    [p   |-> [p EXCEPT !.accumulated = p.accumulated \o chunk,
                       !.buffer = <<>>,
                       !.state = IF @ = "maybe-open" THEN "text"
                                 ELSE IF @ = "maybe-close" THEN "reasoning"
                                 ELSE @],
     raw |-> <<>>], chunk, 1, Len(chunk)))

\* a departure from Feed: every call forgets that </think> has been seen
FeedReopens(p, chunk) ==
  FeedMerge(FeedLoop(
    [p   |-> [p EXCEPT !.accumulated = p.accumulated \o chunk, !.closed = FALSE],
     raw |-> <<>>], chunk, 1, Len(chunk)))

\* a departure from Feed: every call begins outside a quoted string
FeedForgetsQuote(p, chunk) ==
  FeedMerge(FeedLoop(
    [p   |-> [p EXCEPT !.accumulated = p.accumulated \o chunk,
                       !.inString = FALSE, !.escape = FALSE],
     raw |-> <<>>], chunk, 1, Len(chunk)))

\* ThinkTagParser.feed: [p |-> the parser afterwards, segs |-> the return value]
Feed(p, chunk) ==
  FeedMerge(FeedLoop([p   |-> [p EXCEPT !.accumulated = p.accumulated \o chunk],
                      raw |-> <<>>], chunk, 1, Len(chunk)))

\* a departure from Flush: the buffer is returned and kept
FlushKeepsBuffer(p) ==
  IF p.buffer = <<>> THEN [p |-> p, segs |-> <<>>]
  ELSE
    [p    |-> [p EXCEPT !.textAccumulated =
                           IF p.state = "maybe-close" THEN @ ELSE @ \o p.buffer],
     segs |-> <<Seg(IF p.state = "maybe-close" THEN "reasoning" ELSE "text",
                    p.buffer)>>]

\* ThinkTagParser.flush
Flush(p) ==
  IF p.buffer = <<>> THEN [p |-> p, segs |-> <<>>]
  ELSE
    LET type == IF p.state = "maybe-close" THEN "reasoning" ELSE "text" IN
    [p    |-> [p EXCEPT !.buffer = <<>>,
                        !.textAccumulated =
                           IF type = "text" THEN p.textAccumulated \o p.buffer
                           ELSE p.textAccumulated],
     segs |-> <<Seg(type, p.buffer)>>]

\* ThinkTagParser.reset: textAccumulated is not among the fields it clears
Reset(p, text) ==
  Feed([p EXCEPT !.accumulated = <<>>,
                 !.buffer      = <<>>,
                 !.state       = "text",
                 !.closed      = FALSE,
                 !.hasStarted  = FALSE,
                 !.inString    = FALSE,
                 !.escape      = FALSE], text).p

\* ThinkTagParser.getTextWithoutThink
GetTextWithoutThink(p) == Trim(p.textAccumulated)

\* ------------------------------------------------------------------------
\* JSON.parse / JSON.stringify / String() on the texts the model can build:
\* objects, arrays, strings with the escapes \" \\ \/ \n \t, unsigned
\* integers, true, false, null.
\* ------------------------------------------------------------------------

JVal(t, s, keys, vals) == [t |-> t, s |-> s, keys |-> keys, vals |-> vals]
JStr(s)          == JVal("str", s, <<>>, <<>>)
JNum(s)          == JVal("num", s, <<>>, <<>>)
JLit(s)          == JVal("lit", s, <<>>, <<>>)
JObj(keys, vals) == JVal("obj", <<>>, keys, vals)
JArr(vals)       == JVal("arr", <<>>, <<>>, vals)

PFail == [ok |-> FALSE, v |-> JLit(<<>>), i |-> 0]
POk(v, i) == [ok |-> TRUE, v |-> v, i |-> i]

Digits == {"0", "1", "2"}

\* JSON whitespace
RECURSIVE SkipWs(_, _)
SkipWs(s, i) ==
  IF i <= Len(s) /\ s[i] \in {" ", "\n", "\t"} THEN SkipWs(s, i + 1) ELSE i

\* the character an escape sequence \c stands for; <<>> when \c is no escape
Unescape(c) ==
  CASE c = "\"" -> <<"\"">>
    [] c = "\\" -> <<"\\">>
    [] c = "/"  -> <<"/">>
    [] c = "n"  -> <<"\n">>
    [] c = "t"  -> <<"\t">>
    [] OTHER    -> <<>>

\* the body of a JSON string from s[i], after the opening quote
RECURSIVE ParseStringBody(_, _, _)
ParseStringBody(s, i, acc) ==
  IF i > Len(s) THEN PFail
  ELSE IF s[i] = "\"" THEN POk(JStr(acc), i + 1)
  ELSE IF s[i] = "\\" THEN
    IF i + 1 > Len(s) \/ Unescape(s[i + 1]) = <<>> THEN PFail
    ELSE ParseStringBody(s, i + 2, acc \o Unescape(s[i + 1]))
  ELSE IF s[i] \in {"\n", "\t"} THEN PFail
  ELSE ParseStringBody(s, i + 1, Append(acc, s[i]))

RECURSIVE DigitsEnd(_, _)
DigitsEnd(s, i) ==
  IF i <= Len(s) /\ s[i] \in Digits THEN DigitsEnd(s, i + 1) ELSE i

\* an unsigned integer without a leading zero
ParseNumber(s, i) ==
  LET j == DigitsEnd(s, i) IN
  IF s[i] = "0" THEN POk(JNum(<<"0">>), i + 1)
  ELSE POk(JNum(SubSeq(s, i, j - 1)), j)

LitTrue  == <<"t", "r", "u", "e">>
LitFalse == <<"f", "a", "l", "s", "e">>
LitNull  == <<"n", "u", "l", "l">>

ParseLiteral(s, i) ==
  LET at(w) == i + Len(w) - 1 <= Len(s) /\ SubSeq(s, i, i + Len(w) - 1) = w IN
  IF at(LitTrue) THEN POk(JLit(LitTrue), i + Len(LitTrue))
  ELSE IF at(LitFalse) THEN POk(JLit(LitFalse), i + Len(LitFalse))
  ELSE IF at(LitNull) THEN POk(JLit(LitNull), i + Len(LitNull))
  ELSE PFail

\* a key that is a canonical array index ("0", "1", "12", ...)
IsIndexKey(k) ==
  /\ k # <<>>
  /\ \A i \in 1..Len(k) : k[i] \in Digits
  /\ (k[1] = "0" => Len(k) = 1)

DigitVal(c) == CASE c = "0" -> 0 [] c = "1" -> 1 [] c = "2" -> 2

RECURSIVE DigitsLess(_, _)
DigitsLess(a, b) ==
  IF a = <<>> \/ b = <<>> THEN FALSE
  ELSE IF Head(a) # Head(b) THEN DigitVal(Head(a)) < DigitVal(Head(b))
  ELSE DigitsLess(Tail(a), Tail(b))

\* numeric order of two canonical index keys
IndexLess(a, b) == Len(a) < Len(b) \/ (Len(a) = Len(b) /\ DigitsLess(a, b))

\* the position a new own property k takes in a JavaScript object: index keys
\* first in ascending order, then the other keys in insertion order
InsertPos(keys, k) ==
  IF IsIndexKey(k)
  THEN 1 + Cardinality({i \in 1..Len(keys) :
                          IsIndexKey(keys[i]) /\ IndexLess(keys[i], k)})
  ELSE Len(keys) + 1

InsertAt(seq, pos, x) ==
  SubSeq(seq, 1, pos - 1) \o <<x>> \o SubSeq(seq, pos, Len(seq))

\* obj[k] = v while parsing: a repeated key keeps its place and takes the
\* last value
PutMember(obj, k, v) ==
  IF \E i \in 1..Len(obj.keys) : obj.keys[i] = k
  THEN LET i == CHOOSE i \in 1..Len(obj.keys) : obj.keys[i] = k
       IN JObj(obj.keys, [obj.vals EXCEPT ![i] = v])
  ELSE LET pos == InsertPos(obj.keys, k)
       IN JObj(InsertAt(obj.keys, pos, k), InsertAt(obj.vals, pos, v))

RECURSIVE ParseValue(_, _)
RECURSIVE ParseMembers(_, _, _)
RECURSIVE ParseElements(_, _, _)

\* after a member's value vr, at s[e]: "}" ends the object, "," goes on
MembersNext(s, e, obj) ==
  IF e > Len(s) THEN PFail
  ELSE IF s[e] = "}" THEN POk(obj, e + 1)
  ELSE IF s[e] = "," THEN ParseMembers(s, SkipWs(s, e + 1), obj)
  ELSE PFail

MembersAfterValue(s, key, vr, obj) ==
  IF ~vr.ok THEN PFail
  ELSE MembersNext(s, SkipWs(s, vr.i), PutMember(obj, key, vr.v))

\* after a member's key, which ended before s[c]: ":" and the value
MembersAfterKey(s, key, c, obj) ==
  IF c > Len(s) \/ s[c] # ":" THEN PFail
  ELSE MembersAfterValue(s, key, ParseValue(s, c + 1), obj)

MembersKey(s, kr, obj) ==
  IF ~kr.ok THEN PFail
  ELSE MembersAfterKey(s, kr.v.s, SkipWs(s, kr.i), obj)

\* the members of an object from s[i] (a key is expected), obj so far
ParseMembers(s, i, obj) ==
  IF i > Len(s) \/ s[i] # "\"" THEN PFail
  ELSE MembersKey(s, ParseStringBody(s, i + 1, <<>>), obj)

ElementsNext(s, e, vals) ==
  IF e > Len(s) THEN PFail
  ELSE IF s[e] = "]" THEN POk(JArr(vals), e + 1)
  ELSE IF s[e] = "," THEN ParseElements(s, e + 1, vals)
  ELSE PFail

ElementsAfterValue(s, vr, vals) ==
  IF ~vr.ok THEN PFail
  ELSE ElementsNext(s, SkipWs(s, vr.i), Append(vals, vr.v))

\* the elements of an array from s[i] (a value is expected), vals so far
ParseElements(s, i, vals) == ElementsAfterValue(s, ParseValue(s, i), vals)

\* the object or array that opens at s[j], m the first place after the
\* bracket that is no whitespace
ParseComposite(s, j, m) ==
  IF s[j] = "{" THEN
    IF m <= Len(s) /\ s[m] = "}" THEN POk(JObj(<<>>, <<>>), m + 1)
    ELSE ParseMembers(s, m, JObj(<<>>, <<>>))
  ELSE
    IF m <= Len(s) /\ s[m] = "]" THEN POk(JArr(<<>>), m + 1)
    ELSE ParseElements(s, m, <<>>)

\* the JSON value that starts at s[j]
ValueAt(s, j) ==
  IF j > Len(s) THEN PFail
  ELSE IF s[j] \in {"{", "["} THEN ParseComposite(s, j, SkipWs(s, j + 1))
  ELSE IF s[j] = "\"" THEN ParseStringBody(s, j + 1, <<>>)
  ELSE IF s[j] \in Digits THEN ParseNumber(s, j)
  ELSE ParseLiteral(s, j)

\* one JSON value from s[i], leading whitespace skipped
ParseValue(s, i) == ValueAt(s, SkipWs(s, i))

\* nothing but whitespace may follow the value
WholeText(s, r) == IF r.ok /\ SkipWs(s, r.i) > Len(s) THEN r ELSE PFail

\* JSON.parse(s): ok is FALSE where JSON.parse throws
JSONParse(s) == WholeText(s, ParseValue(s, 1))

\* a string as JSON.stringify quotes it
RECURSIVE QuoteBody(_)
QuoteBody(s) ==
  IF s = <<>> THEN <<>>
  ELSE (CASE Head(s) = "\"" -> <<"\\", "\"">>
          [] Head(s) = "\\" -> <<"\\", "\\">>
          [] Head(s) = "\n" -> <<"\\", "n">>
          [] Head(s) = "\t" -> <<"\\", "t">>
          [] OTHER          -> <<Head(s)>>)
       \o QuoteBody(Tail(s))

Quote(s) == <<"\"">> \o QuoteBody(s) \o <<"\"">>

\* JSON.stringify(v) without indentation
RECURSIVE JSONStringify(_)
RECURSIVE StringifyMembers(_, _, _)
RECURSIVE StringifyElements(_, _)

StringifyMembers(keys, vals, i) ==
  IF i > Len(keys) THEN <<>>
  ELSE (IF i > 1 THEN <<",">> ELSE <<>>)
       \o Quote(keys[i]) \o <<":">> \o JSONStringify(vals[i])
       \o StringifyMembers(keys, vals, i + 1)

StringifyElements(vals, i) ==
  IF i > Len(vals) THEN <<>>
  ELSE (IF i > 1 THEN <<",">> ELSE <<>>)
       \o JSONStringify(vals[i]) \o StringifyElements(vals, i + 1)

JSONStringify(v) ==
  CASE v.t = "str" -> Quote(v.s)
    [] v.t = "num" -> v.s
    [] v.t = "lit" -> v.s
    [] v.t = "obj" -> <<"{">> \o StringifyMembers(v.keys, v.vals, 1) \o <<"}">>
    [] v.t = "arr" -> <<"[">> \o StringifyElements(v.vals, 1) \o <<"]">>

ObjectObject ==
  <<"[", "o", "b", "j", "e", "c", "t", " ", "O", "b", "j", "e", "c", "t", "]">>

\* String(v)
RECURSIVE ToJSString(_)
RECURSIVE JoinElements(_, _)

JoinElements(vals, i) ==
  IF i > Len(vals) THEN <<>>
  ELSE (IF i > 1 THEN <<",">> ELSE <<>>)
       \o (IF vals[i].t = "lit" /\ vals[i].s = LitNull THEN <<>>
           ELSE ToJSString(vals[i]))
       \o JoinElements(vals, i + 1)

ToJSString(v) ==
  CASE v.t = "str" -> v.s
    [] v.t = "num" -> v.s
    [] v.t = "lit" -> v.s
    [] v.t = "obj" -> ObjectObject
    [] v.t = "arr" -> JoinElements(v.vals, 1)

HasKey(v, k) == v.t = "obj" /\ \E i \in 1..Len(v.keys) : v.keys[i] = k

Member(v, k) == v.vals[CHOOSE i \in 1..Len(v.keys) : v.keys[i] = k]

KeyName      == <<"n", "a", "m", "e">>
KeyArguments == <<"a", "r", "g", "u", "m", "e", "n", "t", "s">>

\* ------------------------------------------------------------------------
\* parseToolCalls
\* ------------------------------------------------------------------------

ToolCall(id, name, input) == [id |-> id, name |-> name, input |-> input]

\* generateId(): the n-th id handed out in a session; ids never repeat
GenId(n) == "call-" \o ToString(n)

\* Array.prototype.indexOf, 1-based; 0 when x is not in seq
IndexOf(seq, x) ==
  IF \E i \in 1..Len(seq) : seq[i] = x
  THEN CHOOSE i \in 1..Len(seq) :
         seq[i] = x /\ \A j \in 1..(i - 1) : seq[j] # x
  ELSE 0

\* the toolCalls.push and matchedBlocks.push for a candidate whose name is
\* toolNames[originalIdx]; issued counts the calls of genId() in this scan,
\* and genId() returns the id after the firstId + issued handed out before
PushCall(sc, jsonCandidate, arguments, toolNames, originalIdx, firstId) ==
  IF originalIdx # 0
  THEN [sc EXCEPT
          !.toolCalls = Append(@, ToolCall(GenId(firstId + sc.issued),
                                           toolNames[originalIdx],
                                           JSONStringify(arguments))),
          !.matchedBlocks = Append(@, jsonCandidate),
          !.issued = @ + 1]
  ELSE sc

\* a departure from CheckCandidate: an id is taken for a candidate that is
\* not a call
IssuesBeforeCheck(sc, jsonCandidate, parsed, toolNames, firstId) ==
  IF parsed.ok /\ HasKey(parsed.v, KeyName) /\ HasKey(parsed.v, KeyArguments)
  THEN PushCall(sc, jsonCandidate, Member(parsed.v, KeyArguments), toolNames,
                IndexOf([k \in 1..Len(toolNames) |-> ToLowerCase(toolNames[k])],
                        ToLowerCase(ToJSString(Member(parsed.v, KeyName)))),
                firstId)
  ELSE [sc EXCEPT !.issued = @ + 1]

\* a departure from CheckCandidate: the name is looked up as it is spelled
ChecksSpelling(sc, jsonCandidate, parsed, toolNames, firstId) ==
  IF parsed.ok /\ HasKey(parsed.v, KeyName) /\ HasKey(parsed.v, KeyArguments)
  THEN PushCall(sc, jsonCandidate, Member(parsed.v, KeyArguments), toolNames,
                IndexOf(toolNames, ToJSString(Member(parsed.v, KeyName))),
                firstId)
  ELSE sc

\* the if on the parsed candidate
CheckCandidate(sc, jsonCandidate, parsed, toolNames, firstId) ==
  IF parsed.ok /\ HasKey(parsed.v, KeyName) /\ HasKey(parsed.v, KeyArguments)
  THEN PushCall(sc, jsonCandidate, Member(parsed.v, KeyArguments), toolNames,
                IndexOf([k \in 1..Len(toolNames) |-> ToLowerCase(toolNames[k])],
                        ToLowerCase(ToJSString(Member(parsed.v, KeyName)))),
                firstId)
  ELSE sc

\* the body of the try block for the candidate text[startIdx..i]; a throw of
\* JSON.parse is caught and ignored
TryCandidate(sc, jsonCandidate, toolNames, firstId) ==
  CheckCandidate(sc, jsonCandidate, JSONParse(jsonCandidate), toolNames, firstId)

\* a departure from ScanChar: quotes are not followed, every brace counts
ScanIgnoresStrings(sc, text, i, toolNames, firstId) ==
  IF sc.escape THEN [sc EXCEPT !.escape = FALSE]
  ELSE IF text[i] = "\\" THEN [sc EXCEPT !.escape = TRUE]
  ELSE IF text[i] = "{" THEN
    [sc EXCEPT !.startIdx = IF sc.depth = 0 THEN i ELSE @,
               !.depth = @ + 1]
  ELSE IF text[i] = "}" THEN
    IF sc.depth <= 1 /\ sc.startIdx # 0
    THEN [TryCandidate(sc, SubSeq(text, sc.startIdx, i), toolNames, firstId)
            EXCEPT !.depth = 0, !.startIdx = 0]
    ELSE [sc EXCEPT !.depth = IF @ = 0 THEN 0 ELSE @ - 1]
  ELSE sc

\* one iteration of the scan loop; startIdx = 0 stands for -1
ScanChar(sc, text, i, toolNames, firstId) ==
  LET ch == text[i] IN
  IF sc.escape THEN [sc EXCEPT !.escape = FALSE]
  ELSE IF ch = "\\" THEN [sc EXCEPT !.escape = TRUE]
  ELSE IF ch = "\"" THEN [sc EXCEPT !.inString = ~sc.inString]
  ELSE IF sc.inString THEN sc
  ELSE IF ch = "{" THEN
    [sc EXCEPT !.startIdx = IF sc.depth = 0 THEN i ELSE @,
               !.depth = @ + 1]
  ELSE IF ch = "}" THEN
    LET d == IF sc.depth - 1 < 0 THEN 0 ELSE sc.depth - 1 IN
    IF d = 0 /\ sc.startIdx # 0
    THEN [TryCandidate(sc, SubSeq(text, sc.startIdx, i), toolNames, firstId)
            EXCEPT !.depth = d, !.startIdx = 0]
    ELSE [sc EXCEPT !.depth = d]
  ELSE sc

\* the scan loop over text[lo..hi], in two halves: the iterations of the
\* lower half are over (ScanRest reads their result) before those of the upper
\* half begin
RECURSIVE ScanLoop(_, _, _, _, _, _)
ScanRest(sc, text, lo, hi, toolNames, firstId) ==
  IF sc.depth >= 0 THEN ScanLoop(sc, text, lo, hi, toolNames, firstId) ELSE sc

ScanLoop(sc, text, lo, hi, toolNames, firstId) ==
  IF lo > hi THEN sc
  ELSE IF lo = hi THEN ScanChar(sc, text, lo, toolNames, firstId)
  ELSE ScanRest(ScanLoop(sc, text, lo, (lo + hi) \div 2, toolNames, firstId),
                text, (lo + hi) \div 2 + 1, hi, toolNames, firstId)

\* String.prototype.replace(block, ""): the first occurrence removed
ReplaceFirst(s, block) ==
  LET n    == Len(block)
      hits == {i \in 1..(Len(s) - n + 1) : SubSeq(s, i, i + n - 1) = block}
  IN
  IF hits = {} THEN s
  ELSE LET i == CHOOSE i \in hits : \A j \in hits : i <= j
       IN SubSeq(s, 1, i - 1) \o SubSeq(s, i + n, Len(s))

RECURSIVE RemoveBlocks(_, _)
RemoveBlocks(s, blocks) ==
  IF blocks = <<>> THEN s
  ELSE RemoveBlocks(ReplaceFirst(s, Head(blocks)), Tail(blocks))

\* what parseToolCalls returns after the scan, and how many ids it took
ScanReturn(text, sc) ==
  [toolCalls |-> sc.toolCalls,
   cleanText |-> Trim(RemoveBlocks(text, sc.matchedBlocks)),
   issued    |-> sc.issued]

\* parseToolCalls(text, toolNames, genId)
ParseToolCalls(text, toolNames, firstId) ==
  IF Len(toolNames) = 0
  THEN [toolCalls |-> <<>>, cleanText |-> text, issued |-> 0]
  ELSE ScanReturn(text,
                  ScanLoop([depth |-> 0, inString |-> FALSE, escape |-> FALSE,
                            startIdx |-> 0, toolCalls |-> <<>>,
                            matchedBlocks |-> <<>>, issued |-> 0],
                           text, 1, Len(text), toolNames, firstId))

\* ------------------------------------------------------------------------
\* doStream: the outputs (LanguageModelV2StreamPart) and the session
\* ------------------------------------------------------------------------

\* buildDifyMetadata(): "" stands for a key that is left out, and the record
\* of three "" for no providerMetadata at all
Meta(conv, msg, task) == [conversationId |-> conv, messageId |-> msg, taskId |-> task]
NoMeta == Meta("", "", "")

BuildDifyMetadata(ss) == Meta(ss.conversationId, ss.messageId, ss.taskId)

UsageRec(i, o, t) == [inputTokens |-> i, outputTokens |-> o, totalTokens |-> t]

Part(type, id, meta) ==
  [ type |-> type, id |-> id, delta |-> <<>>, toolName |-> <<>>, input |-> <<>>,
    finishReason |-> "", usage |-> UsageRec(0, 0, 0), error |-> <<>>,
    meta |-> meta ]

TextStart(meta)          == Part("text-start", "0", meta)
TextDelta(delta, meta)   == [Part("text-delta", "0", meta) EXCEPT !.delta = delta]
TextEnd(meta)            == Part("text-end", "0", meta)
ReasoningStart(meta)     == Part("reasoning-start", "r0", meta)
ReasoningDelta(delta, meta) ==
  [Part("reasoning-delta", "r0", meta) EXCEPT !.delta = delta]
ReasoningEnd(meta)       == Part("reasoning-end", "r0", meta)
ErrorPart(error)         == [Part("error", "", NoMeta) EXCEPT !.error = error]
ResponseMetadata(id)     == Part("response-metadata", id, NoMeta)

\* a departure from StoreIds: an id, once stored, is kept
StoreFirstIds(ss, data) ==
  [ss EXCEPT
     !.conversationId = IF @ = "" THEN data.conversation_id ELSE @,
     !.messageId      = IF @ = "" THEN data.message_id ELSE @,
     !.taskId         = IF @ = "" THEN data.task_id ELSE @]

\* "Store conversation/message IDs for metadata"
StoreIds(ss, data) ==
  [ss EXCEPT
     !.conversationId = IF data.conversation_id # "" THEN data.conversation_id ELSE @,
     !.messageId      = IF data.message_id # "" THEN data.message_id ELSE @,
     !.taskId         = IF data.task_id # "" THEN data.task_id ELSE @]

Enqueue(ss, part) == [ss EXCEPT !.out = Append(@, part)]

\* a departure from EmitSegment: a reasoning segment ends the open text
\* block but leaves isActiveText set
EndsTextKeepsFlag(ss, seg) ==
  LET md == BuildDifyMetadata(ss) IN
  IF seg.type = "reasoning" THEN
    LET a == IF ss.isActiveText THEN Enqueue(ss, TextEnd(md)) ELSE ss
        b == IF ~a.isActiveReasoning
             THEN Enqueue([a EXCEPT !.isActiveReasoning = TRUE], ReasoningStart(md))
             ELSE a
    IN Enqueue(b, ReasoningDelta(seg.content, md))
  ELSE IF seg.content # <<>> THEN
    LET a == IF ss.isActiveReasoning
             THEN [Enqueue(ss, ReasoningEnd(md)) EXCEPT !.isActiveReasoning = FALSE]
             ELSE ss
        b == IF ~a.isActiveText
             THEN Enqueue([a EXCEPT !.isActiveText = TRUE], TextStart(md))
             ELSE a
    IN Enqueue(b, TextDelta(seg.content, md))
  ELSE ss

\* the body of the for loop of emitSegments
EmitSegment(ss, seg) ==
  LET md == BuildDifyMetadata(ss) IN
  IF seg.type = "reasoning" THEN
    LET a == IF ss.isActiveText
             THEN [Enqueue(ss, TextEnd(md)) EXCEPT !.isActiveText = FALSE]
             ELSE ss
        b == IF ~a.isActiveReasoning
             THEN Enqueue([a EXCEPT !.isActiveReasoning = TRUE], ReasoningStart(md))
             ELSE a
    IN Enqueue(b, ReasoningDelta(seg.content, md))
  ELSE IF seg.content # <<>> THEN
    LET a == IF ss.isActiveReasoning
             THEN [Enqueue(ss, ReasoningEnd(md)) EXCEPT !.isActiveReasoning = FALSE]
             ELSE ss
        b == IF ~a.isActiveText
             THEN Enqueue([a EXCEPT !.isActiveText = TRUE], TextStart(md))
             ELSE a
    IN Enqueue(b, TextDelta(seg.content, md))
  ELSE ss

RECURSIVE EmitSegments(_, _)
EmitSegments(ss, segments) ==
  IF segments = <<>> THEN ss
  ELSE EmitSegments(EmitSegment(ss, Head(segments)), Tail(segments))

\* x ?? 0 on an optional number: <<>> is undefined, <<n>> is n
OrZero(x) == IF x = <<>> THEN 0 ELSE x[1]

\* a departure from ReconcileUsage: totalTokens of a message_end is the sum of
\* the other two
RecomputedUsage(data) ==
  IF data.event = "workflow_finished"
  THEN UsageRec(0, OrZero(data.total_tokens), OrZero(data.total_tokens))
  ELSE UsageRec(OrZero(data.prompt_tokens), OrZero(data.completion_tokens),
                OrZero(data.prompt_tokens) + OrZero(data.completion_tokens))

\* the usage of a terminal event
ReconcileUsage(data) ==
  IF data.event = "workflow_finished"
  THEN UsageRec(0, OrZero(data.total_tokens), OrZero(data.total_tokens))
  ELSE UsageRec(OrZero(data.prompt_tokens), OrZero(data.completion_tokens),
                OrZero(data.usage_total_tokens))

\* the closing of the open block, or the empty text block, at a terminal event
CloseBlocks(ss, hasToolCalls) ==
  LET md == BuildDifyMetadata(ss)
      a == IF ss.isActiveReasoning
           THEN [Enqueue(ss, ReasoningEnd(md)) EXCEPT !.isActiveReasoning = FALSE]
           ELSE ss
  IN
  IF a.isActiveText
  THEN [Enqueue(a, TextEnd(md)) EXCEPT !.isActiveText = FALSE]
  ELSE IF ~hasToolCalls
  THEN Enqueue(Enqueue(a, TextStart(md)), TextEnd(md))
  ELSE a

\* the four outputs of one tool call; the id field of the tool-call part is
\* its toolCallId
ToolCallParts(tc, meta) ==
  << [Part("tool-input-start", tc.id, meta) EXCEPT !.toolName = tc.name],
     [Part("tool-input-delta", tc.id, meta) EXCEPT !.delta = tc.input],
     Part("tool-input-end", tc.id, meta),
     [Part("tool-call", tc.id, meta) EXCEPT !.toolName = tc.name,
                                            !.input = tc.input] >>

RECURSIVE EmitToolCalls(_, _)
EmitToolCalls(ss, toolCalls) ==
  IF toolCalls = <<>> THEN ss
  ELSE EmitToolCalls(
         [ss EXCEPT !.out = @ \o ToolCallParts(Head(toolCalls), BuildDifyMetadata(ss))],
         Tail(toolCalls))

\* a departure from FinishReason: the reason is "stop" whatever was extracted
AlwaysStop(hasToolCalls) == "stop"

FinishReason(hasToolCalls) == IF hasToolCalls THEN "tool-calls" ELSE "stop"

FinishPart(hasToolCalls, usage, meta) ==
  [Part("finish", "", meta) EXCEPT !.finishReason = FinishReason(hasToolCalls),
                                   !.usage = usage]

EnqueueFinish(ss, hasToolCalls, usage) ==
  Enqueue(ss, FinishPart(hasToolCalls, usage, BuildDifyMetadata(ss)))

\* a departure from FlushAndFinish: the finish part is enqueued before the
\* tool calls
FinishBeforeCalls(ss, data, toolCalls, fl) ==
  EmitToolCalls(
    EnqueueFinish(
      CloseBlocks(
        EmitSegments([ss EXCEPT !.thinkParser = fl.p,
                                !.idCounter = @ + Len(toolCalls)], fl.segs),
        Len(toolCalls) > 0),
      Len(toolCalls) > 0,
      ReconcileUsage(data)),
    toolCalls)

\* a terminal event from the flush on, toolCalls being what parseToolCalls
\* returned and fl what thinkParser.flush() does
FlushAndFinish(ss, data, toolCalls, fl) ==
  EnqueueFinish(
    EmitToolCalls(
      CloseBlocks(
        EmitSegments([ss EXCEPT !.thinkParser = fl.p,
                                !.idCounter = @ + Len(toolCalls)], fl.segs),
        Len(toolCalls) > 0),
      toolCalls),
    Len(toolCalls) > 0,
    ReconcileUsage(data))

\* a departure from OnTerminal: the tool calls are extracted from all the
\* text that was fed, reasoning and tags included
ExtractsFromAccumulated(ss, data) ==
  FlushAndFinish(ss, data,
                 ParseToolCalls(Trim(ss.thinkParser.accumulated), ss.toolNames,
                                ss.idCounter).toolCalls,
                 Flush(ss.thinkParser))

\* case "workflow_finished": case "message_end":
OnTerminal(ss, data) ==
  FlushAndFinish(ss, data,
                 ParseToolCalls(GetTextWithoutThink(ss.thinkParser), ss.toolNames,
                                ss.idCounter).toolCalls,
                 Flush(ss.thinkParser))

\* the emitSegments call and the response-metadata of a content event, fd
\* being what thinkParser.feed(data.answer) does
EmitFed(ss, data, fd) ==
  IF data.id # <<>>
  THEN Enqueue(EmitSegments([ss EXCEPT !.thinkParser = fd.p], fd.segs),
               ResponseMetadata(data.id[1]))
  ELSE EmitSegments([ss EXCEPT !.thinkParser = fd.p], fd.segs)

\* case "message": case "agent_message":
OnMessage(ss, data) ==
  IF data.answer # <<>>
  THEN EmitFed(ss, data, Feed(ss.thinkParser, data.answer))
  ELSE ss

\* a departure from OnMessageReplace: the answer goes through the think-tag
\* parser like the answer of a message event
ReplaceThroughFeed(ss, data) == OnMessage(ss, data)

\* message_replace after the reset: the open text block is closed and a new
\* one takes the whole answer
ReplaceText(ss, answer) ==
  LET md == BuildDifyMetadata(ss)
      b == IF ss.isActiveText
           THEN [Enqueue(ss, TextEnd(md)) EXCEPT !.isActiveText = FALSE]
           ELSE ss
  IN [Enqueue(Enqueue(b, TextStart(md)), TextDelta(answer, md))
        EXCEPT !.isActiveText = TRUE]

\* case "message_replace":
OnMessageReplace(ss, data) ==
  IF data.answer # <<>>
  THEN ReplaceText([ss EXCEPT !.thinkParser = Reset(ss.thinkParser, data.answer)],
                   data.answer)
  ELSE ss

\* a departure from OnError: the error also ends the session's open blocks
ErrorTearsDown(ss, data) ==
  [Enqueue(ss, ErrorPart(<<"Dify error", "", "">>))
     EXCEPT !.isActiveText = FALSE, !.isActiveReasoning = FALSE]

\* case "error": new Error(`Dify error${code ? ` (${code})` : ""}: ${msg}`) is
\* the triple of its parts; <<>> is an absent field
OnError(ss, data) ==
  LET msg  == IF data.message # <<>> THEN data.message[1]
              ELSE IF data.msg # <<>> THEN data.msg[1]
              ELSE "Unknown Dify error"
      code == IF data.code # <<>> THEN data.code[1]
              ELSE IF data.status # <<>> THEN data.status[1]
              ELSE ""
  IN Enqueue(ss, ErrorPart(<<"Dify error", code, msg>>))

\* a departure from OnParseFailure: the failure also ends the text block
FailureClosesText(ss, chunk) ==
  [Enqueue(ss, ErrorPart(<<"parse", chunk.error>>)) EXCEPT !.isActiveText = FALSE]

\* if (!chunk.success) { ...; return; }
OnParseFailure(ss, chunk) == Enqueue(ss, ErrorPart(<<"parse", chunk.error>>))

\* a departure from Dispatch: agent_thought starts the think-tag parser afresh
\* and an event that no case names ends the text block
DispatchIgnoredActs(ss, data) ==
  CASE data.event \in {"workflow_finished", "message_end"} -> OnTerminal(ss, data)
    [] data.event \in {"message", "agent_message"}        -> OnMessage(ss, data)
    [] data.event = "agent_thought"           -> [ss EXCEPT !.thinkParser = NewParser]
    [] data.event = "message_replace"                     -> OnMessageReplace(ss, data)
    [] data.event \in {"message_file", "ping"}            -> ss
    [] data.event = "error"                               -> OnError(ss, data)
    [] OTHER                                  -> [ss EXCEPT !.isActiveText = FALSE]

\* switch (data.event): an event no case names leaves the switch untouched
Dispatch(ss, data) ==
  CASE data.event \in {"workflow_finished", "message_end"} -> OnTerminal(ss, data)
    [] data.event \in {"message", "agent_message"}        -> OnMessage(ss, data)
    [] data.event = "agent_thought"                       -> ss
    [] data.event = "message_replace"                     -> OnMessageReplace(ss, data)
    [] data.event \in {"message_file", "ping"}            -> ss
    [] data.event = "error"                               -> OnError(ss, data)
    [] OTHER                                              -> ss

\* transform(chunk, controller)
Transform(ss, chunk) ==
  IF ~chunk.success THEN OnParseFailure(ss, chunk)
  ELSE Dispatch(StoreIds(ss, chunk.value), chunk.value)

\* ------------------------------------------------------------------------
\* The upstream feed: ParseResult<DifyStreamEvent> chunks
\* ------------------------------------------------------------------------

S(str) == <<str>>

\* {"name":"t","arguments":{}}
ToolJson ==
  <<"{", "\"", "n", "a", "m", "e", "\"", ":", "\"", "t", "\"", ",",
    "\"", "a", "r", "g", "u", "m", "e", "n", "t", "s", "\"", ":", "{", "}", "}">>

\* {"name":"U","arguments":{"a":1}}
ToolJsonU ==
  <<"{", "\"", "n", "a", "m", "e", "\"", ":", "\"", "U", "\"", ",",
    "\"", "a", "r", "g", "u", "m", "e", "n", "t", "s", "\"", ":",
    "{", "\"", "a", "\"", ":", "1", "}", "}">>

Value(event) ==
  [ event |-> event, conversation_id |-> "", message_id |-> "", task_id |-> "",
    answer |-> <<>>, id |-> <<>>,
    total_tokens |-> <<>>,
    prompt_tokens |-> <<>>, completion_tokens |-> <<>>, usage_total_tokens |-> <<>>,
    message |-> <<>>, msg |-> <<>>, code |-> <<>>, status |-> <<>> ]

Good(value) == [success |-> TRUE, error |-> "", value |-> value]
Bad(error)  == [success |-> FALSE, error |-> error, value |-> Value("")]

MessageAnswers ==
  { <<>>, <<" ">>, <<"a">>, <<"<">>, <<"\"">>,
    OpenTag \o <<"r">>, CloseTag \o <<"a">>, ToolJson,
    ToolJsonU \o <<"<">> }

ReplaceAnswers == { <<>>, <<"b">>, <<" ">> \o OpenTag \o <<"r">> \o CloseTag }

MessageChunks ==
  { Good([Value("message") EXCEPT !.answer = a, !.conversation_id = "c1",
                                  !.message_id = "m1"]) : a \in MessageAnswers }
  \cup
  { Good([Value("message") EXCEPT !.answer = a, !.id = S("x1")]) :
      a \in { <<>>, <<" ">>, <<"a">> } }
  \cup
  { Good([Value("agent_message") EXCEPT !.answer = OpenTag \o <<"r">>,
                                        !.task_id = "k1"]) }

ReplaceChunks ==
  { Good([Value("message_replace") EXCEPT !.answer = a]) : a \in ReplaceAnswers }

TerminalChunks ==
  { Good([Value("workflow_finished") EXCEPT !.total_tokens = S(2),
                                            !.conversation_id = "c2"]),
    Good(Value("workflow_finished")),
    Good([Value("message_end") EXCEPT !.prompt_tokens = S(1),
                                      !.completion_tokens = S(2),
                                      !.usage_total_tokens = S(3),
                                      !.message_id = "m2"]),
    Good([Value("message_end") EXCEPT !.completion_tokens = S(1)]) }

IgnoredChunks ==
  { Good(Value("ping")),
    Good([Value("message_file") EXCEPT !.conversation_id = "c2"]) }

ThoughtChunks == { Good([Value("agent_thought") EXCEPT !.message_id = "m2"]) }

UnhandledChunks ==
  { Good([Value("node_started") EXCEPT !.task_id = "k2"]) }

ErrorChunks ==
  { Good([Value("error") EXCEPT !.message = S("boom"), !.code = S("e1")]),
    Good([Value("error") EXCEPT !.status = S("400"), !.task_id = "k2"]) }

BadChunks == { Bad("not-json") }

ToolNameLists == { <<>>, << <<"t">>, <<"u">> >> }

\* the longest feed the model follows
MaxEvents == 3

\* ------------------------------------------------------------------------
\* State
\* ------------------------------------------------------------------------

VARIABLES
  conversationId,     \* let conversationId ("" is undefined)
  messageId,          \* let messageId
  taskId,             \* let taskId
  isActiveText,       \* let isActiveText
  isActiveReasoning,  \* let isActiveReasoning
  thinkParser,        \* const thinkParser = new ThinkTagParser()
  toolNames,          \* toolNames of getRequestBody, fixed for the session
  idCounter,          \* how many ids genId has handed out
  out,                \* every part enqueued on the controller, in order
  chunks,             \* every chunk transform has been called with, in order
  mark                \* Len(out) when the latest transform call began

vars == << conversationId, messageId, taskId, isActiveText, isActiveReasoning,
           thinkParser, toolNames, idCounter, out, chunks, mark >>

\* the closure variables of doStream before the first chunk
NewSession(names) ==
  [ conversationId |-> "", messageId |-> "", taskId |-> "",
    isActiveText |-> FALSE, isActiveReasoning |-> FALSE,
    thinkParser |-> NewParser, toolNames |-> names,
    idCounter |-> 0, out |-> <<>> ]

\* the session as one record
Cur ==
  [ conversationId |-> conversationId, messageId |-> messageId, taskId |-> taskId,
    isActiveText |-> isActiveText, isActiveReasoning |-> isActiveReasoning,
    thinkParser |-> thinkParser, toolNames |-> toolNames,
    idCounter |-> idCounter, out |-> out ]

\* the session is ss
Is(ss) ==
  /\ conversationId    = ss.conversationId
  /\ messageId         = ss.messageId
  /\ taskId            = ss.taskId
  /\ isActiveText      = ss.isActiveText
  /\ isActiveReasoning = ss.isActiveReasoning
  /\ thinkParser       = ss.thinkParser
  /\ toolNames         = ss.toolNames
  /\ idCounter         = ss.idCounter
  /\ out               = ss.out

Init ==
  /\ \E names \in ToolNameLists : Is(NewSession(names))
  /\ chunks = <<>>
  /\ mark = 0

\* the session becomes ss
Becomes(ss) ==
  /\ conversationId'    = ss.conversationId
  /\ messageId'         = ss.messageId
  /\ taskId'            = ss.taskId
  /\ isActiveText'      = ss.isActiveText
  /\ isActiveReasoning' = ss.isActiveReasoning
  /\ thinkParser'       = ss.thinkParser
  /\ toolNames'         = ss.toolNames
  /\ idCounter'         = ss.idCounter
  /\ out'               = ss.out

\* one call of transform
Call(chunk) ==
  /\ Len(chunks) < MaxEvents
  /\ Becomes(Transform(Cur, chunk))
  /\ chunks' = Append(chunks, chunk)
  /\ mark' = Len(out)

IsTerminal(chunk) ==
  chunk.success /\ chunk.value.event \in {"workflow_finished", "message_end"}

IsMessage(chunk) ==
  chunk.success /\ chunk.value.event \in {"message", "agent_message"}

IsReplace(chunk) == chunk.success /\ chunk.value.event = "message_replace"

ParseFailure(chunk) == ~chunk.success /\ Call(chunk)

Terminal(chunk) == IsTerminal(chunk) /\ Call(chunk)

Message(chunk) == IsMessage(chunk) /\ Call(chunk)

AgentThought(chunk) ==
  chunk.success /\ chunk.value.event = "agent_thought" /\ Call(chunk)

MessageReplace(chunk) == IsReplace(chunk) /\ Call(chunk)

FileOrPing(chunk) ==
  chunk.success /\ chunk.value.event \in {"message_file", "ping"} /\ Call(chunk)

ErrorEvent(chunk) == chunk.success /\ chunk.value.event = "error" /\ Call(chunk)

\* an event no case of the switch names
Unhandled(chunk) ==
  /\ chunk.success
  /\ chunk.value.event \notin
       {"workflow_finished", "message_end", "message", "agent_message",
        "agent_thought", "message_replace", "message_file", "ping", "error"}
  /\ Call(chunk)

Next ==
  \/ \E chunk \in BadChunks : ParseFailure(chunk)
  \/ \E chunk \in TerminalChunks : Terminal(chunk)
  \/ \E chunk \in MessageChunks : Message(chunk)
  \/ \E chunk \in ThoughtChunks : AgentThought(chunk)
  \/ \E chunk \in ReplaceChunks : MessageReplace(chunk)
  \/ \E chunk \in IgnoredChunks : FileOrPing(chunk)
  \/ \E chunk \in ErrorChunks : ErrorEvent(chunk)
  \/ \E chunk \in UnhandledChunks : Unhandled(chunk)

Spec == Init /\ [][Next]_vars

\* ------------------------------------------------------------------------
\* Reading the controller's queue
\* ------------------------------------------------------------------------

LastChunk == chunks[Len(chunks)]

LastIsTerminal == chunks # <<>> /\ IsTerminal(LastChunk)

\* the parts the latest transform call enqueued
Emitted == SubSeq(out, mark + 1, Len(out))

\* the places of parts whose type is in types
Places(parts, types) == {i \in 1..Len(parts) : parts[i].type \in types}

LastPlace(parts, types) ==
  IF Places(parts, types) = {} THEN 0
  ELSE CHOOSE i \in Places(parts, types) : \A j \in Places(parts, types) : j <= i

\* a consumer of parts sees the block open: its latest start has no end yet
TextOpen(parts) ==
  LastPlace(parts, {"text-start"}) > LastPlace(parts, {"text-end"})

ReasoningOpen(parts) ==
  LastPlace(parts, {"reasoning-start"}) > LastPlace(parts, {"reasoning-end"})

StartTypes   == {"text-start", "reasoning-start"}
EndTypes     == {"text-end", "reasoning-end"}
DeltaTypes   == {"text-delta", "reasoning-delta"}
ContentTypes == StartTypes \cup DeltaTypes \cup EndTypes

\* the end that matches a start
EndOf(type) == IF type = "text-start" THEN "text-end" ELSE "reasoning-end"

\* b lists the places of the starts and ends of parts: every start has the
\* matching end as the next of them, every end the matching start as the
\* previous one
BracketedAt(parts, b) ==
  \A i \in b :
    IF parts[i].type \in StartTypes
    THEN \E j \in b : /\ i < j
                      /\ parts[j].type = EndOf(parts[i].type)
                      /\ \A k \in b : ~(i < k /\ k < j)
    ELSE \E j \in b : /\ j < i
                      /\ parts[j].type \in StartTypes
                      /\ parts[i].type = EndOf(parts[j].type)
                      /\ \A k \in b : ~(j < k /\ k < i)

WellBracketed(parts) == BracketedAt(parts, Places(parts, StartTypes \cup EndTypes))

\* a text-start that text-end follows at once
EmptyPairAt(parts, i) ==
  /\ i + 1 <= Len(parts)
  /\ parts[i].type = "text-start"
  /\ parts[i + 1].type = "text-end"

\* ------------------------------------------------------------------------
\* Claims
\* ------------------------------------------------------------------------

\* C1: once a feed has ended with a terminal event, the parts are
\* well-bracketed: no text-start or reasoning-start arrives while a block is
\* open, every end closes the open block, and no block is left open.
C1_WellBracketed == LastIsTerminal => WellBracketed(out)

\* C2: isActiveText and isActiveReasoning are never both true.
C2_AtMostOneActive == ~(isActiveText /\ isActiveReasoning)

\* C3: a feed with at least one terminal event has produced exactly one
\* finish part.
C3_ExactlyOneFinish ==
  (\E i \in 1..Len(chunks) : IsTerminal(chunks[i]))
    => Cardinality(Places(out, {"finish"})) = 1

\* the tool-call parts of the latest call
CallPlaces == Places(Emitted, {"tool-call"})

\* the parts of the latest call ahead of its tool calls and its finish
Zone == SubSeq(Emitted, 1, Len(Emitted) - 1 - 4 * Cardinality(CallPlaces))

\* place b + 1 .. b + 4 of parts hold the group of the tool call with this id
GroupAt(parts, b, id) ==
  /\ parts[b + 1].type = "tool-input-start"
  /\ parts[b + 2].type = "tool-input-delta"
  /\ parts[b + 3].type = "tool-input-end"
  /\ parts[b + 4].type = "tool-call"
  /\ \A g \in 1..4 : parts[b + g].id = id
  /\ parts[b + 1].toolName = parts[b + 4].toolName
  /\ parts[b + 2].delta = parts[b + 4].input

\* the parts of a terminal event, k of them tool-call parts, end with k groups
\* whose ids are the k latest of genId in the order it made them, and then the
\* one finish
GroupsThenFinish(parts, k) ==
  /\ Len(parts) >= 4 * k + 1
  /\ Places(parts, {"finish"}) = {Len(parts)}
  /\ \A g \in 1..k :
       GroupAt(parts, Len(parts) - 1 - 4 * (k - g + 1), GenId(idCounter - k + g - 1))

\* zone, the parts ahead of the tool calls, holds at most one delta, which
\* arrives in the open block of its kind; what follows it are ends, but for a
\* text-start that the last text-end follows at once
FlushThenClose(zone) ==
  /\ \A i \in 1..Len(zone) : zone[i].type \in ContentTypes
  /\ Cardinality(Places(zone, DeltaTypes)) <= 1
  /\ \A d \in Places(zone, {"text-delta"}) : TextOpen(SubSeq(out, 1, mark + d))
  /\ \A d \in Places(zone, {"reasoning-delta"}) :
       ReasoningOpen(SubSeq(out, 1, mark + d))
  /\ \A i \in 1..Len(zone) :
       i > LastPlace(zone, DeltaTypes) =>
         \/ zone[i].type \in EndTypes
         \/ i = Len(zone) - 1 /\ EmptyPairAt(zone, i)
  /\ ~TextOpen(out) /\ ~ReasoningOpen(out)
  /\ ~isActiveText /\ ~isActiveReasoning
  /\ thinkParser.buffer = <<>>

\* C4: the parts of a terminal event come in this order: the delta of what
\* flush drained, with the starts and ends it needs; the end of the open
\* block, or the empty text block; for each tool call, in the order of
\* extraction, its four parts with one id, name and input; the finish, last.
C4_TerminalOrder ==
  LastIsTerminal =>
    /\ GroupsThenFinish(Emitted, Cardinality(CallPlaces))
    /\ FlushThenClose(Zone)

\* a terminal event that drained a delta and emitted the calls of t and of u
C4_Witness ==
  /\ LastIsTerminal
  /\ Cardinality(CallPlaces) = 2
  /\ Places(Zone, DeltaTypes) # {}
  /\ Emitted[Len(Emitted) - 5].toolName = <<"t">>
  /\ Emitted[Len(Emitted) - 1].toolName = <<"u">>

\* C5: the finish part of a terminal event has the reason "tool-calls" if
\* the event emitted a tool-call part, and "stop" if it emitted none.
C5_FinishReason ==
  LastIsTerminal =>
    /\ Emitted[Len(Emitted)].type = "finish"
    /\ Emitted[Len(Emitted)].finishReason =
         IF CallPlaces # {} THEN "tool-calls" ELSE "stop"

\* a terminal event whose finish part says "tool-calls" after one tool call
C5_Witness ==
  /\ LastIsTerminal
  /\ Cardinality(CallPlaces) = 1
  /\ Emitted[Len(Emitted)].finishReason = "tool-calls"

\* the feed had no content before its last chunk: no terminal event, no
\* message_replace with an answer, and no message whose answer holds anything
\* but white space
NoContentBefore ==
  \A i \in 1..(Len(chunks) - 1) :
    /\ ~IsTerminal(chunks[i])
    /\ IsReplace(chunks[i]) => chunks[i].value.answer = <<>>
    /\ IsMessage(chunks[i]) =>
         \A j \in 1..Len(chunks[i].value.answer) :
           chunks[i].value.answer[j] \in {" ", "\n", "\t"}

\* C6: a feed without content (no content event, or only content events
\* whose answer is empty or white space) that ends with its one terminal
\* event has exactly one text-start, text-end right after it and finish
\* later; it has no other part of a text or reasoning block.
C6_EmptyTextBlock ==
  (LastIsTerminal /\ NoContentBefore) =>
    \E i \in 1..Len(out) :
      /\ EmptyPairAt(out, i)
      /\ Places(out, ContentTypes) = {i, i + 1}
      /\ \E f \in Places(out, {"finish"}) : f > i + 1

\* such a feed with a message of white space ahead of the terminal event
C6_Witness ==
  /\ LastIsTerminal
  /\ NoContentBefore
  /\ \E i \in 1..(Len(chunks) - 1) :
       IsMessage(chunks[i]) /\ chunks[i].value.answer # <<>>

\* the last chunk is the only terminal event of the feed
SoleTerminal ==
  LastIsTerminal /\ \A i \in 1..(Len(chunks) - 1) : ~IsTerminal(chunks[i])

\* C7: the terminal event of a feed emits the empty text-start/text-end pair
\* only if no text or reasoning block was started earlier in the feed and the
\* event emitted no tool call.
C7_EmptyPairOnlyIfNothingOpened ==
  (SoleTerminal /\ \E i \in 1..Len(Emitted) : EmptyPairAt(Emitted, i)) =>
    /\ Places(SubSeq(out, 1, mark), StartTypes) = {}
    /\ CallPlaces = {}

\* the last chunk is a message_replace with an answer
LastIsReplace ==
  chunks # <<>> /\ IsReplace(LastChunk) /\ LastChunk.value.answer # <<>>

\* C8: a message_replace with an answer ends the block that is open, text or
\* reasoning, before it starts the new text block.
C8_ReplaceClosesOpenBlock ==
  LastIsReplace =>
    /\ TextOpen(SubSeq(out, 1, mark)) =>
         \E i \in Places(Emitted, {"text-end"}) :
           i < LastPlace(Emitted, {"text-start"})
    /\ ReasoningOpen(SubSeq(out, 1, mark)) =>
         \E i \in Places(Emitted, {"reasoning-end"}) :
           i < LastPlace(Emitted, {"text-start"})

\* C9: a message_replace with an answer emits the whole answer, unchanged, as
\* the one text-delta of a new text block, which stays open; it emits no
\* reasoning-start and no reasoning-delta.
C9_ReplaceVerbatim ==
  LastIsReplace =>
    /\ Len(Emitted) >= 2
    /\ Emitted[Len(Emitted) - 1].type = "text-start"
    /\ Places(Emitted, {"text-delta"}) = {Len(Emitted)}
    /\ Emitted[Len(Emitted)].delta = LastChunk.value.answer
    /\ Places(Emitted, {"reasoning-start", "reasoning-delta"}) = {}
    /\ isActiveText
    /\ TextOpen(out)

\* a message_replace whose answer has leading white space and think tags
C9_Witness ==
  /\ LastIsReplace
  /\ LastChunk.value.answer = <<" ">> \o OpenTag \o <<"r">> \o CloseTag
  /\ Emitted[Len(Emitted)].type = "text-delta"

\* the session after transform has been called with each chunk of cs in turn
RECURSIVE Run(_, _)
Run(ss, cs) ==
  IF cs = <<>> THEN ss ELSE Run(Transform(ss, Head(cs)), Tail(cs))

IsParseError(part) == part.type = "error" /\ part.error[1] = "parse"

WellFormed(cs) == SelectSeq(cs, LAMBDA c : c.success)

WithoutParseErrors(parts) == SelectSeq(parts, LAMBDA part : ~IsParseError(part))

\* C10: a chunk that failed to parse enqueues one error part, which carries
\* its error, and nothing else happens: but for these error parts, one for
\* each such chunk, the session (ids, flags, parser, queue) is the one the
\* well-formed chunks of the feed alone would have led to.
C10_ParseFailureIsolated ==
  /\ [Cur EXCEPT !.out = WithoutParseErrors(out)]
       = Run(NewSession(toolNames), WellFormed(chunks))
  /\ Len(out) - Len(WithoutParseErrors(out)) = Len(chunks) - Len(WellFormed(chunks))
  /\ (chunks # <<>> /\ ~LastChunk.success) =>
       Emitted = <<ErrorPart(<<"parse", LastChunk.error>>)>>

\* a failed chunk in the middle of a text block that a later message goes on
\* with
C10_Witness ==
  /\ Len(chunks) = 3
  /\ IsMessage(chunks[1])
  /\ ~chunks[2].success
  /\ IsMessage(chunks[3])
  /\ Len(Emitted) = 1
  /\ Emitted[1].type = "text-delta"

\* parts without their providerMetadata
Bare(parts) == [i \in 1..Len(parts) |-> [parts[i] EXCEPT !.meta = NoMeta]]

\* but for the ids, the session is the one of ref, whose queue is parts
SameButIds(ref, parts) ==
  /\ Bare(parts) = Bare(ref.out)
  /\ isActiveText = ref.isActiveText
  /\ isActiveReasoning = ref.isActiveReasoning
  /\ thinkParser = ref.thinkParser
  /\ idCounter = ref.idCounter

IsErrorEvent(chunk) == chunk.success /\ chunk.value.event = "error"

IsDifyError(part) == part.type = "error" /\ part.error[1] = "Dify error"

WithoutErrorEvents(cs) == SelectSeq(cs, LAMBDA c : ~IsErrorEvent(c))

WithoutDifyErrors(parts) == SelectSeq(parts, LAMBDA part : ~IsDifyError(part))

\* C11: an error event enqueues one error part and nothing else happens to
\* the flags, the parser and the queue: but for these error parts, one for
\* each error event, and for the ids, the session is the one the other chunks
\* alone would have led to, so later content goes on with the open block and
\* a later terminal event ends it and emits finish.
C11_ErrorEventKeepsSession ==
  /\ SameButIds(Run(NewSession(toolNames), WithoutErrorEvents(chunks)),
                WithoutDifyErrors(out))
  /\ Len(out) - Len(WithoutDifyErrors(out))
       = Len(chunks) - Len(WithoutErrorEvents(chunks))
  /\ (chunks # <<>> /\ IsErrorEvent(LastChunk)) =>
       Len(Emitted) = 1 /\ IsDifyError(Emitted[1])

\* a message goes on with the text block that was open before an error event
C11_Witness ==
  /\ Len(chunks) = 3
  /\ IsMessage(chunks[1])
  /\ IsErrorEvent(chunks[2])
  /\ IsMessage(chunks[3])
  /\ Places(SubSeq(out, 1, mark), {"text-start", "error"}) = {1, 3}
  /\ Len(Emitted) = 1
  /\ Emitted[1].type = "text-delta"

\* a chunk the switch does nothing for: agent_thought, ping, message_file, or
\* an event that no case names
IsIgnored(chunk) ==
  /\ chunk.success
  /\ chunk.value.event \notin
       {"workflow_finished", "message_end", "message", "agent_message",
        "message_replace", "error"}

WithoutIgnored(cs) == SelectSeq(cs, LAMBDA c : ~IsIgnored(c))

\* C12: agent_thought, ping and message_file events and events that no case
\* names enqueue nothing and leave the flags and the parser as they are: but
\* for the ids, the session is the one the other chunks alone would have led
\* to.
C12_IgnoredEventsAreSilent ==
  /\ SameButIds(Run(NewSession(toolNames), WithoutIgnored(chunks)), out)
  /\ (chunks # <<>> /\ IsIgnored(LastChunk)) => Emitted = <<>>

\* an event that no case names arrives while the text block is open and the
\* parser holds the start of a tag
C12_Witness ==
  /\ Len(chunks) >= 2
  /\ IsIgnored(LastChunk)
  /\ LastChunk.value.event = "node_started"
  /\ isActiveText
  /\ thinkParser.buffer # <<>>
  /\ Emitted = <<>>

\* the value of field that the latest well-formed chunk with a value for it
\* carried
LastCarried(field) ==
  IF \E i \in 1..Len(chunks) : chunks[i].success /\ chunks[i].value[field] # ""
  THEN chunks[CHOOSE i \in 1..Len(chunks) :
                /\ chunks[i].success /\ chunks[i].value[field] # ""
                /\ \A j \in (i + 1)..Len(chunks) :
                     ~(chunks[j].success /\ chunks[j].value[field] # "")
             ].value[field]
  ELSE ""

\* C13: each of conversationId, messageId and taskId is the value of the
\* latest well-formed chunk that carried one, whatever its event; the parts a
\* call enqueues with providerMetadata carry the ids as they are after the
\* chunk of that call, so finish carries the ids of its terminal event.
C13_IdsFollowLatestCarrier ==
  /\ conversationId = LastCarried("conversation_id")
  /\ messageId = LastCarried("message_id")
  /\ taskId = LastCarried("task_id")
  /\ \A i \in 1..Len(Emitted) :
       Emitted[i].type \notin {"error", "response-metadata"} =>
         Emitted[i].meta = Meta(conversationId, messageId, taskId)

\* finish carries the messageId of its message_end, which replaced the one of
\* an earlier message, and the conversationId of that message
C13_Witness ==
  /\ LastIsTerminal
  /\ LastChunk.value.message_id = "m2"
  /\ \E i \in 1..(Len(chunks) - 1) : chunks[i].success /\ chunks[i].value.message_id = "m1"
  /\ Emitted[Len(Emitted)].type = "finish"
  /\ Emitted[Len(Emitted)].meta = Meta("c1", "m2", "")

\* C14: the usage of finish is, for workflow_finished with total_tokens n,
\* inputTokens 0, outputTokens n, totalTokens n, and for message_end with
\* prompt_tokens p, completion_tokens c, total_tokens t, inputTokens p,
\* outputTokens c, totalTokens t; a missing field counts as 0.
C14_Usage ==
  LastIsTerminal =>
    Emitted[Len(Emitted)].usage =
      IF LastChunk.value.event = "workflow_finished"
      THEN [inputTokens  |-> 0,
            outputTokens |-> IF LastChunk.value.total_tokens = <<>> THEN 0
                             ELSE LastChunk.value.total_tokens[1],
            totalTokens  |-> IF LastChunk.value.total_tokens = <<>> THEN 0
                             ELSE LastChunk.value.total_tokens[1]]
      ELSE [inputTokens  |-> IF LastChunk.value.prompt_tokens = <<>> THEN 0
                             ELSE LastChunk.value.prompt_tokens[1],
            outputTokens |-> IF LastChunk.value.completion_tokens = <<>> THEN 0
                             ELSE LastChunk.value.completion_tokens[1],
            totalTokens  |-> IF LastChunk.value.usage_total_tokens = <<>> THEN 0
                             ELSE LastChunk.value.usage_total_tokens[1]]

\* a message_end with completion_tokens alone: totalTokens is 0
C14_Witness ==
  /\ LastIsTerminal
  /\ LastChunk.value.event = "message_end"
  /\ LastChunk.value.usage_total_tokens = <<>>
  /\ Emitted[Len(Emitted)].usage = UsageRec(0, 1, 0)

\* ------------------------------------------------------------------------
\* The think-tag parser on its own: a ThinkTagParser and the calls of its
\* methods. thinkParser is the parser and chunks the calls made so far, each
\* with the parser as it was before the call and with what the call returned;
\* the other variables stay as doStream begins with them.
\* ------------------------------------------------------------------------

\* the proper non-empty beginnings and endings of tag
Beginnings(tag) == { SubSeq(tag, 1, k) : k \in 1..(Len(tag) - 1) }
Endings(tag)    == { SubSeq(tag, k + 1, Len(tag)) : k \in 1..(Len(tag) - 1) }

\* " a <think>r </think> a": text, a reasoning block and text again, with
\* whitespace before, inside and after each
LexBlock ==
  <<" ", "a", " ">> \o OpenTag \o <<"r", " ">> \o CloseTag \o <<" ", "a">>

\* the chunks given to feed
LexChunks ==
  { <<>>, <<" ">>, <<"a">>, <<"r">>, <<"\"">>, <<"\\">>, OpenTag, CloseTag,
    LexBlock }
  \cup Beginnings(OpenTag) \cup Endings(OpenTag)
  \cup Beginnings(CloseTag) \cup Endings(CloseTag)

\* the texts given to reset
LexResetTexts == { <<>>, <<"b">>, OpenTag \o <<"r">> }

\* the most calls the model follows
MaxCalls == 3

LexCall(op, text, segs) ==
  [op |-> op, text |-> text, before |-> thinkParser, segs |-> segs]

LexInit ==
  /\ Is(NewSession(<<>>))
  /\ chunks = <<>>
  /\ mark = 0

LexUnchanged ==
  UNCHANGED << conversationId, messageId, taskId, isActiveText,
               isActiveReasoning, toolNames, idCounter, out, mark >>

\* the parser becomes p after a call that returned segs
LexDone(op, text, p, segs) ==
  /\ thinkParser' = p
  /\ chunks' = Append(chunks, LexCall(op, text, segs))
  /\ LexUnchanged

LexFed(text, fd) == LexDone("feed", text, fd.p, fd.segs)

\* parser.feed(text)
LexFeed(text) ==
  /\ Len(chunks) < MaxCalls
  /\ LexFed(text, Feed(thinkParser, text))

LexFlushed(fl) == LexDone("flush", <<>>, fl.p, fl.segs)

\* parser.flush()
LexFlush ==
  /\ Len(chunks) < MaxCalls
  /\ LexFlushed(Flush(thinkParser))

\* parser.reset(text)
LexReset(text) ==
  /\ Len(chunks) < MaxCalls
  /\ LexDone("reset", text, Reset(thinkParser, text), <<>>)

LexNext ==
  \/ \E text \in LexChunks : LexFeed(text)
  \/ LexFlush
  \/ \E text \in LexResetTexts : LexReset(text)

LexSpec == LexInit /\ [][LexNext]_vars

\* the latest call is one of op
LastIs(op) == chunks # <<>> /\ LastChunk.op = op

\* C15: after reset(T), whatever was fed or flushed before, the value of
\* getTextWithoutThink() is the one of a new parser after feed(T).
C15_ResetForgetsText ==
  LastIs("reset") =>
    GetTextWithoutThink(thinkParser)
      = GetTextWithoutThink(Feed(NewParser, LastChunk.text).p)

\* the two latest calls are feeds
LastTwoAreFeeds ==
  /\ Len(chunks) >= 2
  /\ chunks[Len(chunks) - 1].op = "feed"
  /\ LastChunk.op = "feed"

\* a \o b holds tag from place s on, and a ends inside this tag
TagAcross(a, b, tag, s) ==
  /\ s + Len(tag) - 1 <= Len(a) + Len(b)
  /\ SubSeq(a \o b, s, s + Len(tag) - 1) = tag
  /\ s <= Len(a)
  /\ Len(a) < s + Len(tag) - 1

SplitsTag(a, b) ==
  \E tag \in {OpenTag, CloseTag} : \E s \in 1..Len(a) : TagAcross(a, b, tag, s)

\* the two feeds e1 and e2 returned and left what whole, one feed of the two
\* chunks together, returns and leaves
SplitSame(e1, e2, whole) ==
  /\ MergeSegments(<<>>, e1.segs \o e2.segs, 1, Len(e1.segs) + Len(e2.segs))
       = whole.segs
  /\ thinkParser = whole.p

\* C16: two feeds whose chunks together hold a tag that the first chunk ends
\* inside return, once their lists are joined and merged, the segments of one
\* feed of the whole, and leave the parser as that one feed leaves it.
C16_SplitTag ==
  (LastTwoAreFeeds /\ SplitsTag(chunks[Len(chunks) - 1].text, LastChunk.text)) =>
    SplitSame(chunks[Len(chunks) - 1], LastChunk,
              Feed(chunks[Len(chunks) - 1].before,
                   chunks[Len(chunks) - 1].text \o LastChunk.text))

\* </think> arrives as "</th" and "ink>" and ends the reasoning block
C16_Witness ==
  /\ LastTwoAreFeeds
  /\ chunks[Len(chunks) - 1].before.state = "reasoning"
  /\ chunks[Len(chunks) - 1].text = SubSeq(CloseTag, 1, 4)
  /\ LastChunk.text = SubSeq(CloseTag, 5, 8)
  /\ thinkParser.closed
  /\ thinkParser.state = "text"

\* what a feed of text returns when all of it is plain text
AllText(text) == IF text = <<>> THEN <<>> ELSE << Seg("text", text) >>

\* C17: once </think> has ended the reasoning block, the parser is in the
\* text state with nothing buffered, and stays so until reset: a feed returns
\* its whole chunk, whatever tags it holds, as one text segment.
C17_OneReasoningBlock ==
  /\ thinkParser.closed => thinkParser.state = "text" /\ thinkParser.buffer = <<>>
  /\ (LastIs("feed") /\ LastChunk.before.closed) =>
       /\ LastChunk.segs = AllText(LastChunk.text)
       /\ thinkParser.closed
  /\ (LastIs("flush") /\ LastChunk.before.closed) =>
       LastChunk.segs = <<>> /\ thinkParser.closed

\* <think> is fed again after the reasoning block has ended
C17_Witness ==
  /\ LastIs("feed")
  /\ LastChunk.before.closed
  /\ LastChunk.text = OpenTag
  /\ LastChunk.segs = << Seg("text", OpenTag) >>

\* the contents of segs, joined
Contents(segs) ==
  IF segs = <<>> THEN <<>>
  ELSE IF Len(segs) = 1 THEN segs[1].content
  ELSE IF Len(segs) = 2 THEN segs[1].content \o segs[2].content
  ELSE segs[1].content \o segs[2].content \o segs[3].content

\* the latest call is a feed that began in the reasoning state, with nothing
\* buffered, and whose chunk has no "<": the chunk belongs to the reasoning
\* block
FedInsideReasoning ==
  /\ LastIs("feed")
  /\ LastChunk.before.state = "reasoning"
  /\ \A i \in 1..Len(LastChunk.text) : LastChunk.text[i] # "<"

\* C18: feed("<think>"), outside a quoted string and before any </think>,
\* returns no segment; what is fed after it, up to the closing tag, is
\* returned as reasoning and adds nothing to the accumulated text.
C18_OpenTagStartsReasoning ==
  /\ ( /\ LastIs("feed")
       /\ LastChunk.text = OpenTag
       /\ LastChunk.before.state = "text"
       /\ ~LastChunk.before.closed
       /\ ~LastChunk.before.inString )
     => LastChunk.segs = <<>> /\ thinkParser.state = "reasoning"
  /\ FedInsideReasoning =>
       /\ \A i \in 1..Len(LastChunk.segs) : LastChunk.segs[i].type = "reasoning"
       /\ Contents(LastChunk.segs) = LastChunk.text
       /\ thinkParser.textAccumulated = LastChunk.before.textAccumulated

\* the characters of the chunks
LexChars == {" ", "a", "r", "\"", "\\", "<", "/", "t", "h", "i", "n", "k", ">"}

\* p and q agree on the state, the buffer and the closed flag
SameScan(p, q) ==
  /\ p.state = q.state
  /\ p.buffer = q.buffer
  /\ p.closed = q.closed

\* no character of text is a double quote or a backslash
Unquoting(text) == \E i \in 1..Len(text) : text[i] \in {"\"", "\\"}

\* C19: inside a quoted string no character changes the state, the buffer or
\* the closed flag, in one call or across calls: a feed that begins inside a
\* quoted string and holds neither quote nor backslash, <think> and </think>
\* among them, leaves all three as they were and the parser inside the
\* string.
C19_QuotedStringSuspendsTags ==
  /\ thinkParser.inString =>
       \A ch \in LexChars :
         SameScan(FeedChar([p |-> thinkParser, raw |-> <<>>], ch).p, thinkParser)
  /\ (LastIs("feed") /\ LastChunk.before.inString /\ ~Unquoting(LastChunk.text)) =>
       SameScan(thinkParser, LastChunk.before) /\ thinkParser.inString

\* </think> is fed inside a quoted string of a reasoning block, which stays
\* open
C19_Witness ==
  /\ LastIs("feed")
  /\ LastChunk.before.inString
  /\ LastChunk.before.state = "reasoning"
  /\ LastChunk.text = CloseTag
  /\ thinkParser.state = "reasoning"
  /\ ~thinkParser.closed

\* the latest call is a feed of characters of a quoted string, all of them:
\* the quote that begins or ends it, or a chunk without quote or backslash
\* fed inside it; no tag was begun before it
FedQuoted ==
  /\ LastIs("feed")
  /\ LastChunk.text # <<>>
  /\ LastChunk.before.state \in {"text", "reasoning"}
  /\ \/ LastChunk.text = <<"\"">> /\ ~LastChunk.before.escape
     \/ LastChunk.before.inString /\ ~Unquoting(LastChunk.text)

\* C20: the characters of a quoted string are returned with the kind of the
\* state they are read in: as reasoning, and without a change of the
\* accumulated text, in the reasoning state, as text in the text state.
C20_QuotedStringKeepsKind ==
  FedQuoted =>
    IF LastChunk.before.state = "reasoning"
    THEN /\ LastChunk.segs = << Seg("reasoning", LastChunk.text) >>
         /\ thinkParser.textAccumulated = LastChunk.before.textAccumulated
    ELSE LastChunk.segs = << Seg("text", LastChunk.text) >>

\* the kind flush gives the buffer of p
FlushKind(p) == IF p.state = "maybe-close" THEN "reasoning" ELSE "text"

\* C21: flush() with an empty buffer returns no segment and leaves the parser
\* as it was; with a non-empty buffer it returns one segment, the buffer, as
\* reasoning in the maybe-close state and as text otherwise, adds a text one
\* to the accumulated text, empties the buffer and changes nothing else, so
\* that a flush() right after it returns no segment.
C21_Flush ==
  LastIs("flush") =>
    IF LastChunk.before.buffer = <<>>
    THEN LastChunk.segs = <<>> /\ thinkParser = LastChunk.before
    ELSE /\ LastChunk.segs
              = << Seg(FlushKind(LastChunk.before), LastChunk.before.buffer) >>
         /\ thinkParser =
              [LastChunk.before EXCEPT
                 !.buffer = <<>>,
                 !.textAccumulated =
                    IF FlushKind(LastChunk.before) = "text"
                    THEN @ \o LastChunk.before.buffer ELSE @]
         /\ Flush(thinkParser).segs = <<>>
         /\ Flush(thinkParser).p = thinkParser

\* "</" is flushed out of a reasoning block as reasoning
C21_Witness ==
  /\ LastIs("flush")
  /\ LastChunk.before.state = "maybe-close"
  /\ LastChunk.before.buffer = SubSeq(CloseTag, 1, 2)
  /\ LastChunk.segs = << Seg("reasoning", SubSeq(CloseTag, 1, 2)) >>
  /\ thinkParser.buffer = <<>>
  /\ thinkParser.textAccumulated = <<>>

\* text without the whitespace it begins with
Stripped(text) ==
  IF Inked(text) = {} THEN <<>>
  ELSE SubSeq(text, CHOOSE i \in Inked(text) : \A j \in Inked(text) : i <= j,
              Len(text))

\* the number of whitespace characters of text, and of the contents of segs
WhiteCount(text) == Cardinality({i \in 1..Len(text) : IsSpace(text[i])})

WhiteIn(segs) ==
  Cardinality({ <<k, i>> \in (1..Len(segs)) \X (1..Len(LexBlock)) :
                  i <= Len(segs[k].content) /\ IsSpace(segs[k].content[i]) })

\* the kind of the block the parser p is in
StateKind(p) ==
  IF p.state \in {"reasoning", "maybe-close"} THEN "reasoning" ELSE "text"

\* C22: as long as only whitespace has been fed, a feed drops the whitespace
\* its chunk begins with: it returns nothing for a chunk of whitespace, and
\* otherwise what it returns for the chunk without it. After the first other
\* character every whitespace character fed is returned, and a chunk of one
\* whitespace character is returned, alone or after the buffered beginning
\* of a tag, in a segment of the kind of the block the parser is in.
C22_LeadingWhitespace ==
  LastIs("feed") =>
    IF ~LastChunk.before.hasStarted
    THEN /\ LastChunk.segs = Feed(LastChunk.before, Stripped(LastChunk.text)).segs
         /\ Stripped(LastChunk.text) = <<>> =>
              LastChunk.segs = <<>> /\ ~thinkParser.hasStarted
         /\ WhiteIn(LastChunk.segs) = WhiteCount(Stripped(LastChunk.text))
    ELSE /\ WhiteIn(LastChunk.segs) = WhiteCount(LastChunk.text)
         /\ LastChunk.text = <<" ">> =>
              LastChunk.segs
                \in { << Seg(StateKind(LastChunk.before), <<" ">>) >>,
                      << Seg(StateKind(LastChunk.before),
                             LastChunk.before.buffer \o <<" ">>) >> }

\* no call so far is a reset
NeverReset == \A k \in 1..Len(chunks) : chunks[k].op # "reset"

\* the contents of the text segments the calls have returned, in the order
\* in which they were returned
RECURSIVE PlainReturned(_)
PlainReturned(calls) ==
  IF calls = <<>> THEN <<>>
  ELSE PlainReturned(SubSeq(calls, 1, Len(calls) - 1))
       \o TextOf(calls[Len(calls)].segs)

\* C23: as long as the parser has not been reset, the accumulated text is
\* the contents of the text segments that feed and flush have returned, in
\* the order of their return, and nothing of a reasoning segment;
\* getTextWithoutThink() is this text, trimmed.
C23_AccumulatedText ==
  NeverReset =>
    /\ thinkParser.textAccumulated = PlainReturned(chunks)
    /\ GetTextWithoutThink(thinkParser) = Trim(PlainReturned(chunks))

\* text and reasoning have been returned, and the accumulated text ends with
\* whitespace that getTextWithoutThink() trims
C23_Witness ==
  /\ NeverReset
  /\ \E k \in 1..Len(chunks) : \E i \in 1..Len(chunks[k].segs) :
        chunks[k].segs[i].type = "reasoning"
  /\ GetTextWithoutThink(thinkParser) # <<>>
  /\ GetTextWithoutThink(thinkParser) # thinkParser.textAccumulated

\* C24: in the list a feed returns no segment is empty and no two
\* neighbours are of the same kind.
C24_MergedSegments ==
  LastIs("feed") =>
    /\ \A i \in 1..Len(LastChunk.segs) : LastChunk.segs[i].content # <<>>
    /\ \A i \in 1..(Len(LastChunk.segs) - 1) :
         LastChunk.segs[i].type # LastChunk.segs[i + 1].type

\* one feed returns text, reasoning and text again, each of several
\* characters
C24_Witness ==
  /\ LastIs("feed")
  /\ Len(LastChunk.segs) = 3
  /\ \A i \in 1..3 : Len(LastChunk.segs[i].content) >= 2
  /\ LastChunk.segs[2].type = "reasoning"

\* ------------------------------------------------------------------------
\* parseToolCalls on its own: doGenerate calls it with the answer of the
\* response, the names of the tools of the request and the id generator of
\* the model. toolNames are these names, idCounter counts the ids the
\* generator has handed out, and chunks holds the call that was made, with
\* the text, the first id free before it and what it returned; the other
\* variables stay as doStream begins with them.
\* ------------------------------------------------------------------------

\* {"name": "t", "arguments": {"a": "}\"{"}}
ToolJsonS ==
  <<"{", "\"", "n", "a", "m", "e", "\"", ":", " ", "\"", "t", "\"", ",",
    " ", "\"", "a", "r", "g", "u", "m", "e", "n", "t", "s", "\"", ":",
    " ", "{", "\"", "a", "\"", ":", " ", "\"", "}", "\\", "\"", "{", "\"",
    "}", "}">>

\* {"name":"t"}
NoArguments ==
  <<"{", "\"", "n", "a", "m", "e", "\"", ":", "\"", "t", "\"", "}">>

\* {"name":"x","arguments":{}}
UnknownName ==
  <<"{", "\"", "n", "a", "m", "e", "\"", ":", "\"", "x", "\"", ",", "\"",
    "a", "r", "g", "u", "m", "e", "n", "t", "s", "\"", ":", "{", "}",
    "}">>

\* {a}
NotJson == <<"{", "a", "}">>

\* "{"name":"t","arguments":{}}"
QuotedJson == <<"\"">> \o ToolJson \o <<"\"">>

\* what the answers are made of
ExtractPieces ==
  { ToolJson, ToolJsonU, ToolJsonS, QuotedJson, NoArguments, UnknownName,
    NotJson, <<"{">>, <<"}">>, <<"\"">>, <<"\\">>, <<"a">>, <<" ">> }

\* the most pieces of an answer
MaxPieces == 3

\* the answers of at most k pieces
RECURSIVE TextsOf(_)
TextsOf(k) ==
  IF k = 0 THEN { <<>> }
  ELSE TextsOf(k - 1)
       \cup { t \o piece : t \in TextsOf(k - 1), piece \in ExtractPieces }

ExtractTexts == TextsOf(MaxPieces)

\* the most ids the generator has handed out before the call
MaxIssued == 1

ExtractInit ==
  /\ \E names \in ToolNameLists : \E n \in 0..MaxIssued :
       Is([NewSession(names) EXCEPT !.idCounter = n])
  /\ chunks = <<>>
  /\ mark = 0

ExtractCall(text, res) ==
  [text |-> text, firstId |-> idCounter, result |-> res]

\* the call returned res
Extracted(text, res) ==
  /\ chunks' = Append(chunks, ExtractCall(text, res))
  /\ idCounter' = idCounter + res.issued
  /\ UNCHANGED << conversationId, messageId, taskId, isActiveText,
                  isActiveReasoning, thinkParser, toolNames, out, mark >>

\* parseToolCalls(typedData.answer, toolNames, this.generateId)
Extract(text) ==
  /\ chunks = <<>>
  /\ Extracted(text, ParseToolCalls(text, toolNames, idCounter))

ExtractNext == \E text \in ExtractTexts : Extract(text)

ExtractSpec == ExtractInit /\ [][ExtractNext]_vars

\* a call has been made; TheCall is this call
Called == chunks # <<>>
TheCall == chunks[1]

\* the largest and the smallest of a set of integers that is not empty
Largest(set)  == CHOOSE m \in set : \A x \in set : x <= m
Smallest(set) == CHOOSE m \in set : \A x \in set : m <= x

\* text[i] comes after an odd number of backslashes in a row: the scan skips
\* it as escaped
Escaped(text, i) ==
  (i - 1 - Largest({0} \cup {j \in 1..(i - 1) : text[j] # "\\"})) % 2 = 1

\* the places of the quotes that begin or end a quoted string
QuoteMarks(text) ==
  {i \in 1..Len(text) : text[i] = "\"" /\ ~Escaped(text, i)}

\* place i lies inside a quoted string
InQuotes(marks, i) == Cardinality({q \in marks : q < i}) % 2 = 1

\* the places of the character ch that are neither escaped nor inside a
\* quoted string
Outside(text, marks, ch) ==
  {i \in 1..Len(text) :
     text[i] = ch /\ ~Escaped(text, i) /\ ~InQuotes(marks, i)}

\* the braces opened less the braces closed up to place i
Rise(opens, closes, i) ==
  Cardinality({o \in opens : o <= i}) - Cardinality({c \in closes : c <= i})

\* the nesting depth after place i, which a "}" too many leaves at 0
DepthAt(opens, closes, i) ==
  Rise(opens, closes, i)
  - Smallest({ Rise(opens, closes, j) :
                 j \in {0} \cup {k \in opens \cup closes : k <= i} })

\* the places where a top-level block begins, and where one ends
Begins(opens, closes) == {o \in opens : DepthAt(opens, closes, o - 1) = 0}
Ends(opens, closes)   == {e \in closes : DepthAt(opens, closes, e - 1) = 1}

\* the k-th of a set of integers, in rising order
Nth(set, k) == CHOOSE x \in set : Cardinality({y \in set : y < x}) = k - 1

\* the top-level blocks { ... } of text, in the order in which they end:
\* each begins at the latest beginning before its end
BlocksOf(begins, ends) ==
  [k \in 1..Cardinality(ends) |->
     [s |-> Largest({b \in begins : b < Nth(ends, k)}), e |-> Nth(ends, k)]]

BlocksBetween(text, marks) ==
  BlocksOf(Begins(Outside(text, marks, "{"), Outside(text, marks, "}")),
           Ends(Outside(text, marks, "{"), Outside(text, marks, "}")))

Blocks(text) == BlocksBetween(text, QuoteMarks(text))

\* the text of a block
Block(text, b) == SubSeq(text, b.s, b.e)

\* what parseToolCalls returns for the block on its own
Alone(text, b, names) == ParseToolCalls(Block(text, b), names, 0).toolCalls

\* the blocks that are tool calls on their own, in the order of blocks
Hits(text, blocks, names) ==
  SelectSeq(blocks, LAMBDA b : Alone(text, b, names) # <<>>)

\* the calls of the blocks hits, with the ids the generator hands out from
\* firstId on
Numbered(text, hits, names, firstId) ==
  [j \in 1..Len(hits) |->
     [Alone(text, hits[j], names)[1] EXCEPT !.id = GenId(firstId + j - 1)]]

\* C25: the calls returned are those of the top-level blocks that are tool
\* calls, in the order in which the blocks end in the text; the generator is
\* called once for each of them and for nothing else, so that the ids are
\* the next ones of the generator in this order, and no two are the same.
C25_CallsInOrder ==
  (Called /\ toolNames # <<>>) =>
    /\ TheCall.result.toolCalls
         = Numbered(TheCall.text, Hits(TheCall.text, Blocks(TheCall.text), toolNames),
                    toolNames, TheCall.firstId)
    /\ TheCall.result.issued = Len(TheCall.result.toolCalls)
    /\ idCounter = TheCall.firstId + Len(TheCall.result.toolCalls)
    /\ \A j, k \in 1..Len(TheCall.result.toolCalls) :
         j # k => TheCall.result.toolCalls[j].id # TheCall.result.toolCalls[k].id

\* a block that is no call lies between two calls, to tools "u" and "t",
\* when ids have been handed out before
C25_Witness ==
  /\ Called
  /\ TheCall.firstId = 1
  /\ TheCall.text = ToolJsonU \o NotJson \o ToolJson
  /\ Len(TheCall.result.toolCalls) = 2
  /\ TheCall.result.toolCalls[1].id = GenId(1)
  /\ TheCall.result.toolCalls[1].name = <<"u">>
  /\ TheCall.result.toolCalls[2].id = GenId(2)
  /\ TheCall.result.toolCalls[2].name = <<"t">>

\* the entries of names that are the string name up to case
Entries(names, name) ==
  {k \in 1..Len(names) : ToLowerCase(names[k]) = ToLowerCase(name)}

\* parsed is an object with the keys name and arguments whose name is, up
\* to case, an entry of names
NamesTool(parsed, names) ==
  /\ parsed.ok
  /\ HasKey(parsed.v, KeyName)
  /\ HasKey(parsed.v, KeyArguments)
  /\ Member(parsed.v, KeyName).t = "str"
  /\ Entries(names, Member(parsed.v, KeyName).s) # {}

\* the name and the input of the call for it
CallFor(parsed, names) ==
  [name  |-> names[Smallest(Entries(names, Member(parsed.v, KeyName).s))],
   input |-> JSONStringify(Member(parsed.v, KeyArguments))]

\* the blocks of text that name a tool, in the order of blocks
Naming(text, blocks, names) ==
  SelectSeq(blocks, LAMBDA b : NamesTool(JSONParse(Block(text, b)), names))

\* calls are the calls for the blocks naming
CallsFor(text, naming, names, calls) ==
  /\ Len(calls) = Len(naming)
  /\ \A j \in 1..Len(naming) :
       /\ calls[j].name  = CallFor(JSONParse(Block(text, naming[j])), names).name
       /\ calls[j].input = CallFor(JSONParse(Block(text, naming[j])), names).input

ScanTo(text, i, names, firstId) ==
  ScanLoop([depth |-> 0, inString |-> FALSE, escape |-> FALSE,
            startIdx |-> 0, toolCalls |-> <<>>,
            matchedBlocks |-> <<>>, issued |-> 0],
           text, 1, i, names, firstId)

\* the scans before and after a character agree on the depth, on the
\* beginning of the block they are in and on the calls found
SameBlocks(before, after) ==
  /\ after.depth = before.depth
  /\ after.startIdx = before.startIdx
  /\ after.toolCalls = before.toolCalls
  /\ after.matchedBlocks = before.matchedBlocks

\* the braces of text that lie inside quoted strings
QuotedBraces(text, marks) ==
  {i \in 1..Len(text) : text[i] \in {"{", "}"} /\ InQuotes(marks, i)}

\* the places where text holds piece
PlacesOf(text, piece) ==
  {n \in 1..(Len(text) - Len(piece) + 1) :
     SubSeq(text, n, n + Len(piece) - 1) = piece}

\* C27: a brace inside a quoted string, which a quote after a backslash
\* does not end, leaves the depth, the beginning of the block and the calls
\* of the scan as they were; a text all of whose braces are inside quoted
\* strings has no call, and a call whose string values hold braces and an
\* escaped quote is one block from its first brace to its last.
C27_QuotedBraces ==
  (Called /\ toolNames # <<>>) =>
    /\ \A i \in QuotedBraces(TheCall.text, QuoteMarks(TheCall.text)) :
         SameBlocks(ScanTo(TheCall.text, i - 1, toolNames, TheCall.firstId),
                    ScanTo(TheCall.text, i, toolNames, TheCall.firstId))
    /\ (\A i \in 1..Len(TheCall.text) :
          TheCall.text[i] \in {"{", "}"} =>
            i \in QuotedBraces(TheCall.text, QuoteMarks(TheCall.text)))
       => TheCall.result.toolCalls = <<>>
    /\ \A n \in PlacesOf(TheCall.text, ToolJsonS) :
         n \in Begins(Outside(TheCall.text, QuoteMarks(TheCall.text), "{"),
                      Outside(TheCall.text, QuoteMarks(TheCall.text), "}"))
         => \E k \in 1..Len(Blocks(TheCall.text)) :
              /\ Blocks(TheCall.text)[k] = [s |-> n, e |-> n + Len(ToolJsonS) - 1]
              /\ Alone(TheCall.text, Blocks(TheCall.text)[k], toolNames) # <<>>

\* the JSON text of a call inside quotes is followed by a call whose string
\* value holds braces and an escaped quote: the one call returned is the
\* latter
C27_Witness ==
  /\ Called
  /\ TheCall.text = QuotedJson \o <<" ">> \o ToolJsonS
  /\ Len(TheCall.result.toolCalls) = 1
  /\ TheCall.result.toolCalls[1].name = <<"t">>
  /\ TheCall.result.toolCalls[1].input # <<"{", "}">>

\* C28: with an empty allow-list no call is returned, the generator is not
\* called, and the cleaned text is the text without the whitespace around
\* it.
C28_EmptyAllowList ==
  (Called /\ toolNames = <<>>) =>
    /\ TheCall.result.toolCalls = <<>>
    /\ TheCall.result.issued = 0
    /\ idCounter = TheCall.firstId
    /\ TheCall.result.cleanText = Trim(TheCall.text)

\* text from place from on without the blocks hits, which lie in it in
\* rising order
RECURSIVE Without(_, _, _)
Without(text, hits, from) ==
  IF hits = <<>> THEN SubSeq(text, from, Len(text))
  ELSE SubSeq(text, from, Head(hits).s - 1)
       \o Without(text, Tail(hits), Head(hits).e + 1)

\* C29: the cleaned text is the text without the blocks that were returned
\* as calls, each taken out at its own place, and without the whitespace
\* around what is left.
C29_CleanedText ==
  (Called /\ toolNames # <<>>) =>
    TheCall.result.cleanText
      = Trim(Without(TheCall.text,
                     Hits(TheCall.text, Blocks(TheCall.text), toolNames), 1))

\* the places where text holds the call ToolJson outside quoted strings and
\* not after a backslash
CallPlacesIn(text, marks) ==
  PlacesOf(text, ToolJson) \cap Outside(text, marks, "{")

\* the calls of calls that are the call of ToolJson
PlainCalls(calls) ==
  {k \in 1..Len(calls) : calls[k].name = <<"t">> /\ calls[k].input = <<"{", "}">>}

\* the blocks of text that are no calls on their own
Misses(text, blocks, names) ==
  SelectSeq(blocks, LAMBDA b : Alone(text, b, names) = <<>>)

\* every block of misses is found in clean
StayIn(text, misses, clean) ==
  \A k \in 1..Len(misses) : PlacesOf(clean, Block(text, misses[k])) # {}

\* C30: for every text parseToolCalls returns; a block that is no JSON
\* text, or lacks name or arguments, or names no tool of the allow-list, is
\* no call and is found in the cleaned text, and neither such a block nor a
\* "{" that is never closed nor a "}" too many keeps a call that follows it
\* from being returned.
C30_BadBlocksAreSkipped ==
  (Called /\ toolNames # <<>>) =>
    /\ TheCall.result.issued = Len(TheCall.result.toolCalls)
    /\ Len(TheCall.result.toolCalls)
         = Len(Hits(TheCall.text, Blocks(TheCall.text), toolNames))
    /\ StayIn(TheCall.text,
              Misses(TheCall.text, Blocks(TheCall.text), toolNames),
              TheCall.result.cleanText)
    /\ Cardinality(PlainCalls(TheCall.result.toolCalls))
         = Cardinality(CallPlacesIn(TheCall.text, QuoteMarks(TheCall.text)))

\* ------------------------------------------------------------------------
\* A character that ends the match of a tag
\* ------------------------------------------------------------------------

\* the tag the parser p is matching
TagOf(p) == IF p.state = "maybe-close" THEN CloseTag ELSE OpenTag

\* text begins with a character that ends the match p has buffered
Breaks(p, text) ==
  /\ p.buffer # <<>>
  /\ ~p.inString
  /\ text # <<>>
  /\ text[1] # "\""
  /\ ~StartsWith(TagOf(p), Append(p.buffer, text[1]))

\* p with its buffer given up: back in the block it was in
Resumed(p) ==
  [p EXCEPT !.buffer = <<>>, !.state = StateKind(p)]

\* the segments of first and then of rest, merged
Joined(first, rest) ==
  MergeSegments(<<>>, first \o rest, 1, Len(first) + Len(rest))

\* C32: when the first character of a chunk ends the match of a tag, the
\* buffered characters are returned in the kind of the block the parser is
\* in and the scan goes on from that very character: the feed returns the
\* buffer and then what it returns for the whole chunk with nothing
\* buffered, and leaves the scan where that feed leaves it; so "<" and then
\* "<think>" give the text "<" and begin the reasoning block.
C32_BreakResumesAtChar ==
  (LastIs("feed") /\ Breaks(LastChunk.before, LastChunk.text)) =>
    /\ LastChunk.segs
         = Joined(<< Seg(StateKind(LastChunk.before), LastChunk.before.buffer) >>,
                  Feed(Resumed(LastChunk.before), LastChunk.text).segs)
    /\ SameScan(thinkParser, Feed(Resumed(LastChunk.before), LastChunk.text).p)

\* ------------------------------------------------------------------------
\* Tool calls after a message_replace
\* ------------------------------------------------------------------------

\* the places of the message_replace events that carry an answer
ReplacePlaces ==
  {k \in 1..Len(chunks) : IsReplace(chunks[k]) /\ chunks[k].value.answer # <<>>}

\* the name and the input of each tool-call part of parts, in their order,
\* and then the reason of each finish part
CallsAndReason(parts) ==
  [i \in 1..Len(SelectSeq(parts, LAMBDA part : part.type \in {"tool-call", "finish"}))
     |-> LET part == SelectSeq(parts, LAMBDA x : x.type \in {"tool-call", "finish"})[i]
         IN << part.toolName, part.input, part.finishReason >>]

\* what transform enqueues for chunk in the session ss
EnqueuedBy(ss, chunk) ==
  SubSeq(Transform(ss, chunk).out, Len(ss.out) + 1, Len(Transform(ss, chunk).out))

\* C33: at a terminal event after a message_replace with an answer, the tool
\* calls and the finish reason are those of a session that got nothing
\* before that message_replace: a block of the text before it is no call.
C33_ReplaceForgetsCalls ==
  (LastIsTerminal /\ ReplacePlaces # {}) =>
    CallsAndReason(Emitted)
      = CallsAndReason(
          EnqueuedBy(Run(NewSession(toolNames),
                         SubSeq(chunks, Largest(ReplacePlaces), Len(chunks) - 1)),
                     LastChunk))

\* ------------------------------------------------------------------------
\* The response-metadata part of a content event
\* ------------------------------------------------------------------------

\* the latest event is a message or agent_message that carries an id
LastCarriesId == chunks # <<>> /\ IsMessage(LastChunk) /\ LastChunk.value.id # <<>>

\* C34: a message or agent_message event that carries an id enqueues one
\* response-metadata part, with that id, after every other part it
\* enqueues, whatever its answer: also an empty answer, and an answer that
\* gives no segment.
C34_ResponseMetadata ==
  LastCarriesId =>
    /\ Cardinality(Places(Emitted, {"response-metadata"})) = 1
    /\ Emitted[Len(Emitted)] = ResponseMetadata(LastChunk.value.id[1])

\* ------------------------------------------------------------------------
\* Extraction and flush at a terminal event
\* ------------------------------------------------------------------------

\* the session before the latest event
Before == Run(NewSession(toolNames), SubSeq(chunks, 1, Len(chunks) - 1))

\* the tool-call parts of parts as calls
AsCalls(parts) ==
  [i \in 1..Cardinality(Places(parts, {"tool-call"})) |->
     ToolCall(SelectSeq(parts, LAMBDA part : part.type = "tool-call")[i].id,
              SelectSeq(parts, LAMBDA part : part.type = "tool-call")[i].toolName,
              SelectSeq(parts, LAMBDA part : part.type = "tool-call")[i].input)]

\* the calls in the plain text of the parser p once it is flushed
CallsAfterFlush(p, names, firstId) ==
  ParseToolCalls(GetTextWithoutThink(Flush(p).p), names, firstId).toolCalls

\* C35: the tool calls of a terminal event, which are extracted before the
\* flush, are the calls in the plain text after the flush, in the same
\* order; and wherever the parser stands, the text the flush adds changes no
\* call.
C35_FlushChangesNoCall ==
  /\ LastIsTerminal =>
       AsCalls(Emitted) = CallsAfterFlush(Before.thinkParser, toolNames,
                                          Before.idCounter)
  /\ ParseToolCalls(GetTextWithoutThink(thinkParser), toolNames, idCounter).toolCalls
       = CallsAfterFlush(thinkParser, toolNames, idCounter)

\* a terminal event that emits a tool call and whose flush returns the
\* beginning of a tag as text
C35_Witness ==
  /\ LastIsTerminal
  /\ CallPlaces # {}
  /\ Before.thinkParser.buffer # <<>>
  /\ Before.thinkParser.state = "maybe-open"
  /\ \E i \in Places(Emitted, {"text-delta"}) :
       Emitted[i].delta = Before.thinkParser.buffer

\* ------------------------------------------------------------------------
\* Deltas and ends inside their block
\* ------------------------------------------------------------------------

\* the text block, or the reasoning block, is open ahead of place i of out
OpenAhead(i, type) ==
  IF type \in {"text-delta", "text-end"}
  THEN TextOpen(SubSeq(out, 1, i - 1))
  ELSE ReasoningOpen(SubSeq(out, 1, i - 1))

\* C37: every text-delta is enqueued while the text block is open and every
\* reasoning-delta while the reasoning block is open: the latest start of
\* its kind ahead of it has no end yet; and a text-end or reasoning-end is
\* enqueued only for a block that is open.
C37_DeltasInsideBlocks ==
  \A i \in Places(out, DeltaTypes \cup EndTypes) : OpenAhead(i, out[i].type)

\* a text block, then a reasoning block, then a text block again, each with
\* a delta
C37_Witness ==
  /\ Cardinality(Places(out, {"text-delta"})) >= 2
  /\ \E i \in Places(out, {"reasoning-delta"}) :
       /\ \E j \in Places(out, {"text-delta"}) : j < i
       /\ \E j \in Places(out, {"text-delta"}) : i < j

\* ------------------------------------------------------------------------
\* Tool calls and the empty text block over the whole session
\* ------------------------------------------------------------------------

\* the places of out where an empty text block begins
EmptyPairs == {i \in 1..Len(out) : EmptyPairAt(out, i)}

\* C38: over the whole session every tool-call block of the plain text has
\* one tool-call part, with one tool-input-start, -delta and -end: a second
\* terminal event enqueues neither the calls of the first again nor a
\* second empty text block.
C38_CallsOnce ==
  LastIsTerminal =>
    /\ Cardinality(Places(out, {"tool-call"}))
         = Len(ParseToolCalls(GetTextWithoutThink(thinkParser), toolNames,
                              0).toolCalls)
    /\ \A type \in {"tool-input-start", "tool-input-delta", "tool-input-end"} :
         Cardinality(Places(out, {type})) = Cardinality(Places(out, {"tool-call"}))
    /\ Cardinality(EmptyPairs) <= 1

\* ------------------------------------------------------------------------
\* What becomes of the characters fed
\* ------------------------------------------------------------------------

\* the chunks of the feeds among calls, in one text
RECURSIVE FedText(_)
FedText(calls) ==
  IF calls = <<>> THEN <<>>
  ELSE FedText(SubSeq(calls, 1, Len(calls) - 1))
       \o (IF calls[Len(calls)].op = "feed" THEN calls[Len(calls)].text ELSE <<>>)

\* the contents of the segments, of either kind, that calls have returned,
\* in the order of their return
RECURSIVE AllReturned(_)
AllReturned(calls) ==
  IF calls = <<>> THEN <<>>
  ELSE AllReturned(SubSeq(calls, 1, Len(calls) - 1))
       \o AllOf(calls[Len(calls)].segs)

\* text without the n characters from place i on
Cut(text, i, n) == SubSeq(text, 1, i - 1) \o SubSeq(text, i + n, Len(text))

\* kept is text, or text without one <think>, or text without one <think>
\* and one </think> after it
TagsApart(text, kept) ==
  \/ kept = text
  \/ \E i \in PlacesOf(text, OpenTag) :
       \/ kept = Cut(text, i, Len(OpenTag))
       \/ \E j \in PlacesOf(Cut(text, i, Len(OpenTag)), CloseTag) :
            /\ j >= i
            /\ kept = Cut(Cut(text, i, Len(OpenTag)), j, Len(CloseTag))

\* feeds and then one flush
FedAndFlushed ==
  /\ LastIs("flush")
  /\ \A k \in 1..(Len(chunks) - 1) : chunks[k].op = "feed"

\* C39: after feeds and a last flush, the contents of all the segments
\* returned, in the order of their return, are the text that was fed
\* without the whitespace it begins with and without the characters of the
\* tags: no other character is dropped, doubled or moved, also when a double
\* quote comes while the beginning of a tag is buffered.
C39_NothingLost ==
  FedAndFlushed =>
    TagsApart(Stripped(FedText(chunks)), AllReturned(chunks))

\* ------------------------------------------------------------------------
\* One reasoning block in a session
\* ------------------------------------------------------------------------

\* no event so far is a message_replace with an answer
NeverReplaced == ReplacePlaces = {}

\* C40: in a session without message_replace at most one reasoning-start is
\* enqueued: once the reasoning block has been ended, by </think> or by a
\* text segment, no later content begins it again, also when the reasoning
\* holds quoted strings.
C40_OneReasoningStart ==
  NeverReplaced => Cardinality(Places(out, {"reasoning-start"})) <= 1

\* ------------------------------------------------------------------------
\* The request: formatToolsPrompt and getRequestBody, and doStream from its
\* call of getRequestBody on.  A text is a sequence of strings; an optional
\* value is <<>> when absent and <<v>> when it is v.
\* ------------------------------------------------------------------------

\* Array.prototype.join(sep) of texts
RECURSIVE Join(_, _)
Join(texts, sep) ==
  IF texts = <<>> THEN <<>>
  ELSE IF Len(texts) = 1 THEN texts[1]
  ELSE texts[1] \o sep \o Join(Tail(texts), sep)

\* .filter(Boolean) of texts
Filled(texts) == SelectSeq(texts, LAMBDA text : text # <<>>)

\* one entry of toolDescriptions, for a tool without description and
\* inputSchema whose name is not in TOOL_SHORT_DESCRIPTIONS
ToolDescription(name) ==
  <<"- ">> \o name \o <<": ">> \o name \o <<"\n  {\"name\": \"">> \o name
    \o <<"\", \"arguments\": {">> \o <<"}}">>

\* the function tools of tools, in their order
FunctionTools(tools) == SelectSeq(tools, LAMBDA t : t.type = "function")

\* formatToolsPrompt(tools)
FormatToolsPrompt(tools) ==
  IF tools = <<>> \/ tools[1] = <<>> \/ FunctionTools(tools[1]) = <<>>
  THEN [prompt |-> <<>>, toolNames |-> <<>>]
  ELSE [prompt |->
          <<"\n\n# Tools\nCall tools with JSON format:\n\n">>
            \o Join([i \in 1..Len(FunctionTools(tools[1])) |->
                       ToolDescription(FunctionTools(tools[1])[i].name)],
                    <<"\n">>),
        toolNames |->
          [i \in 1..Len(FunctionTools(tools[1])) |-> FunctionTools(tools[1])[i].name]]

\* a departure from ToolConfig: without the prompt no tool name either
ToolConfigIfInjected(tools, injectTools) ==
  IF injectTools
  THEN [toolsPrompt |-> FormatToolsPrompt(tools).prompt,
        toolNames   |-> FormatToolsPrompt(tools).toolNames]
  ELSE [toolsPrompt |-> <<>>, toolNames |-> <<>>]

\* "Tool config" of getRequestBody
ToolConfig(tools, injectTools) ==
  [toolsPrompt |-> IF injectTools THEN FormatToolsPrompt(tools).prompt ELSE <<>>,
   toolNames   |-> FormatToolsPrompt(tools).toolNames]

\* a part of a message whose content is an array
TextPart(text, conv) ==
  [type |-> "text", text |-> text, toolName |-> <<>>, output |-> <<>>,
   conversationId |-> conv]

ToolResult(toolName, output) ==
  [type |-> "tool-result", text |-> <<>>, toolName |-> toolName,
   output |-> output, conversationId |-> <<>>]

\* a message whose content is a string, and one whose content is an array
Msg(role, content) ==
  [role |-> role, isArray |-> FALSE, content |-> content, parts |-> <<>>]

MsgOf(role, parts) ==
  [role |-> role, isArray |-> TRUE, content |-> <<>>, parts |-> parts]

\* extractTextFromMessage(msg)
ExtractTextFromMessage(msg) ==
  IF ~msg.isArray THEN msg.content
  ELSE Join(Filled([i \in 1..Len(msg.parts) |->
                      IF msg.parts[i].type = "text" THEN msg.parts[i].text
                      ELSE <<>>]),
            <<" ">>)

\* the entry of results for a tool-result part
ResultLine(part) ==
  <<"[">> \o (IF part.toolName # <<>> THEN part.toolName ELSE <<"tool">>)
    \o <<" result]: ">>
    \o (IF part.output = <<>> THEN <<"[completed]">> ELSE part.output[1])

\* extractToolResult(msg)
ResultLines(parts) == [i \in 1..Len(parts) |-> ResultLine(parts[i])]

ExtractToolResult(msg) ==
  IF ~msg.isArray THEN <<>>
  ELSE Join(ResultLines(SelectSeq(msg.parts, LAMBDA p : p.type = "tool-result")),
            <<"\n">>)

\* formatSystemPrompt(raw) for a prompt without <env>, <directories> and a
\* sentence "You are ...", and extractSystemPrompt(messages)
FormatSystemPrompt(raw) == IF raw = <<>> THEN <<>> ELSE Trim(raw)

ExtractSystemPrompt(messages) ==
  IF \E i \in 1..Len(messages) : messages[i].role = "system"
  THEN FormatSystemPrompt(ExtractTextFromMessage(
         messages[CHOOSE i \in 1..Len(messages) :
                    /\ messages[i].role = "system"
                    /\ \A j \in 1..(i - 1) : messages[j].role # "system"]))
  ELSE <<>>

\* the conversation ids that the parts of msg carry, in their order
IdsIn(msg) ==
  IF msg.isArray
  THEN SelectSeq([i \in 1..Len(msg.parts) |-> msg.parts[i].conversationId],
                 LAMBDA c : c # <<>>)
  ELSE <<>>

\* findConversationId(headers, messages): the loop from message i down
RECURSIVE FindInMessages(_, _)
FindInMessages(messages, i) ==
  IF i < 1 THEN <<>>
  ELSE IF IdsIn(messages[i]) # <<>> THEN IdsIn(messages[i])[1]
  ELSE FindInMessages(messages, i - 1)

FindConversationId(chatId, messages) ==
  IF chatId # <<>> THEN chatId ELSE FindInMessages(messages, Len(messages))

\* a departure from StartIndex: only the last message is the new input
StartAtLast(messages, convId) ==
  IF convId # <<>> THEN Len(messages) ELSE 1

\* the loop of buildQuery from message i down; places count from 1
RECURSIVE WalkBack(_, _, _)
WalkBack(messages, i, startIndex) ==
  IF i < 1 THEN startIndex
  ELSE IF messages[i].role = "tool" THEN WalkBack(messages, i - 1, i)
  ELSE IF messages[i].role = "user" THEN i
  ELSE startIndex

\* startIndex of buildQuery
StartIndex(messages, convId) ==
  IF convId # <<>>
  THEN WalkBack(messages, Len(messages), Len(messages) + 1)
  ELSE 1

\* the filter of buildQuery
Queried(slice, convId) ==
  SelectSeq(slice, LAMBDA m : \/ m.role \in {"user", "tool"}
                              \/ (convId = <<>> /\ m.role = "assistant"))

\* the map of buildQuery
QueryTexts(kept) ==
  [i \in 1..Len(kept) |-> IF kept[i].role = "tool"
                          THEN ExtractToolResult(kept[i])
                          ELSE ExtractTextFromMessage(kept[i])]

\* buildQuery(messages, conversationId)
BuildQuery(messages, convId) ==
  Join(Filled(QueryTexts(Queried(SubSeq(messages, StartIndex(messages, convId),
                                        Len(messages)),
                                 convId))),
       <<"\n\n">>)

\* what getRequestBody throws, and what it returns: the query and the
\* conversation_id of the body, and toolNames; the user, the inputs, the
\* files and the headers are left out
Thrown(message) ==
  [ok |-> FALSE, error |-> message, query |-> <<>>, conversation_id |-> <<>>,
   toolNames |-> <<>>]

RequestBody(query, convId, systemPrompt, config) ==
  [ok |-> TRUE, error |-> "",
   query |-> Join(Filled(<< IF convId = <<>> THEN systemPrompt ELSE <<>>,
                            query,
                            IF convId = <<>> THEN config.toolsPrompt
                            ELSE <<>> >>),
                  <<"\n\n">>),
   conversation_id |-> convId,
   toolNames |-> config.toolNames]

\* getRequestBody(options); injectToolsPrompt is the setting of that name
GetRequestBody(options, injectToolsPrompt) ==
  IF options.messages = <<>> THEN Thrown("No messages provided")
  ELSE IF BuildQuery(options.messages,
                     FindConversationId(options.chatId, options.messages)) = <<>>
  THEN Thrown("No user message found")
  ELSE RequestBody(BuildQuery(options.messages,
                              FindConversationId(options.chatId, options.messages)),
                   FindConversationId(options.chatId, options.messages),
                   ExtractSystemPrompt(options.messages),
                   ToolConfig(options.tools, injectToolsPrompt # <<FALSE>>))

\* the tools of a request
FunctionTool(name) == [type |-> "function", name |-> name]
ProviderTool(name) == [type |-> "provider-defined", name |-> name]

\* options.tools: absent, empty, two function tools, and a provider-defined
\* tool alone and among function tools
ToolLists ==
  { <<>>,
    << <<>> >>,
    << << FunctionTool(<<"t">>), FunctionTool(<<"u">>) >> >>,
    << << ProviderTool(<<"x">>) >> >>,
    << << FunctionTool(<<"u">>), ProviderTool(<<"x">>), FunctionTool(<<"t">>) >> >> }

\* the messages of a prompt
Messages ==
  { Msg("system", <<" ", "s">>),
    Msg("user", <<"q">>),
    Msg("user", <<>>),
    Msg("assistant", <<"a">>),
    MsgOf("assistant", << TextPart(<<"a">>, <<"c1">>) >>),
    MsgOf("tool", << ToolResult(<<"t">>, << <<"o">> >>) >>) }

\* the most messages of a prompt
MaxMessages == 2

MessageLists ==
  UNION { [1..n -> Messages] : n \in 0..MaxMessages }

\* the calls of doStream: every prompt with and without the header chat-id,
\* and every list of tools under every setting of injectToolsPrompt
Options(messages, chatId, tools) ==
  [messages |-> messages, chatId |-> chatId, tools |-> tools]

Requests ==
  { << Options(messages, chatId, << << FunctionTool(<<"t">>), FunctionTool(<<"u">>) >> >>),
       <<>> >> :
      messages \in MessageLists, chatId \in { <<>>, <<"c0">> } }
  \cup
  { << Options(<< Msg("user", <<"q">>) >>, <<>>, tools), inject >> :
      tools \in ToolLists, inject \in { <<>>, <<TRUE>>, <<FALSE>> } }

RequestInit ==
  /\ Is(NewSession(<<>>))
  /\ chunks = <<>>
  /\ mark = 0

\* the record of the call
Request(options, injectToolsPrompt, result) ==
  [options |-> options, injectToolsPrompt |-> injectToolsPrompt, result |-> result]

\* doStream(options) up to the transform: getRequestBody returned or threw
\* result, and the closure variables are set
Requested(options, injectToolsPrompt, result) ==
  /\ Becomes(NewSession(result.toolNames))
  /\ chunks' = << Request(options, injectToolsPrompt, result) >>
  /\ mark' = 0

DoStream(options, injectToolsPrompt) ==
  /\ chunks = <<>>
  /\ Requested(options, injectToolsPrompt,
               GetRequestBody(options, injectToolsPrompt))

\* the stream is there: getRequestBody did not throw
Streaming == chunks # <<>> /\ chunks[1].result.ok

\* the transform is called with the chunks of the stream
RequestNext ==
  \/ \E request \in Requests : DoStream(request[1], request[2])
  \/ \E chunk \in BadChunks : Streaming /\ ParseFailure(chunk)
  \/ \E chunk \in TerminalChunks : Streaming /\ Terminal(chunk)
  \/ \E chunk \in MessageChunks : Streaming /\ Message(chunk)
  \/ \E chunk \in ThoughtChunks : Streaming /\ AgentThought(chunk)
  \/ \E chunk \in ReplaceChunks : Streaming /\ MessageReplace(chunk)
  \/ \E chunk \in IgnoredChunks : Streaming /\ FileOrPing(chunk)
  \/ \E chunk \in ErrorChunks : Streaming /\ ErrorEvent(chunk)
  \/ \E chunk \in UnhandledChunks : Streaming /\ Unhandled(chunk)

RequestSpec == RequestInit /\ [][RequestNext]_vars

\* ------------------------------------------------------------------------
\* The allow-list of a session
\* ------------------------------------------------------------------------

\* the names of the function tools that tools declares, in their order
Declared(tools) ==
  IF tools = <<>> THEN <<>>
  ELSE [i \in 1..Len(SelectSeq(tools[1], LAMBDA t : t.type = "function")) |->
          SelectSeq(tools[1], LAMBDA t : t.type = "function")[i].name]

\* the query of a new conversation to which no tools prompt is added
PlainQuery(messages) ==
  Join(Filled(<< ExtractSystemPrompt(messages), BuildQuery(messages, <<>>) >>),
       <<"\n\n">>)

\* C31: from the call of getRequestBody on, before the first event and
\* after every event, the allow-list of the session is the names of the
\* function tools the request declares, in their order, whatever
\* injectToolsPrompt is; with no tools declared, or an empty list of them,
\* no tools prompt is added to the query and the allow-list is empty, and a
\* session with an empty allow-list enqueues no tool-call part and no finish
\* whose reason is not "stop".
C31_AllowList ==
  (Called /\ TheCall.result.ok) =>
    /\ TheCall.result.toolNames = Declared(TheCall.options.tools)
    /\ toolNames = Declared(TheCall.options.tools)
    /\ TheCall.options.tools \in { <<>>, << <<>> >> } =>
         /\ toolNames = <<>>
         /\ TheCall.result.conversation_id = <<>> =>
              TheCall.result.query = PlainQuery(TheCall.options.messages)
    /\ toolNames = <<>> =>
         /\ Places(out, {"tool-input-start", "tool-input-delta", "tool-input-end",
                         "tool-call"}) = {}
         /\ \A i \in Places(out, {"finish"}) : out[i].finishReason = "stop"

\* with injectToolsPrompt false, and a tool declared that is no function, a
\* session enqueues a call of a declared tool
C31_Witness ==
  /\ Called
  /\ TheCall.injectToolsPrompt = <<FALSE>>
  /\ toolNames = << <<"u">>, <<"t">> >>
  /\ Places(out, {"tool-call"}) # {}
  /\ out[Len(out)].finishReason = "tool-calls"

\* ------------------------------------------------------------------------
\* The query of a request
\* ------------------------------------------------------------------------

\* how many tool messages messages ends with
TrailingTools(messages) ==
  Cardinality({k \in 1..Len(messages) :
                 \A j \in k..Len(messages) : messages[j].role = "tool"})

\* the place of the first message of the new input of a known conversation:
\* the user message ahead of the tool messages at the end, if there is one
\* right ahead of them, and else the first of these tool messages
NewInputFrom(messages, t) ==
  IF Len(messages) - t >= 1 /\ messages[Len(messages) - t].role = "user"
  THEN Len(messages) - t
  ELSE Len(messages) - t + 1

\* the texts of the messages of slice whose role is in roles, in their order,
\* as one text
TextsOfRoles(slice, roles) ==
  Join(Filled(QueryTexts(SelectSeq(slice, LAMBDA m : m.role \in roles))),
       <<"\n\n">>)

\* the query of the request for the text its messages give
QueryFor(call, convId, text) ==
  IF text = <<>>
  THEN /\ ~call.result.ok
       /\ call.result.error = "No user message found"
  ELSE /\ call.result.ok
       /\ call.result.conversation_id = convId
       /\ call.result.query
            = IF convId # <<>> THEN text
              ELSE Join(Filled(<< ExtractSystemPrompt(call.options.messages),
                                  text,
                                  ToolConfig(call.options.tools,
                                             call.injectToolsPrompt # <<FALSE>>)
                                    .toolsPrompt >>),
                        <<"\n\n">>)

\* C36: with a conversation id the query is made of the messages at the end
\* of the prompt alone: the tool messages it ends with and the user message
\* right ahead of them, and no message ahead of a message of another role;
\* when these give no text getRequestBody throws "No user message found".
\* Without a conversation id the query is made of every user, tool and
\* assistant message, in the order of the prompt.
C36_QueryOfRequest ==
  (Called /\ TheCall.options.messages # <<>>) =>
    IF FindConversationId(TheCall.options.chatId, TheCall.options.messages) # <<>>
    THEN QueryFor(TheCall,
                  FindConversationId(TheCall.options.chatId,
                                     TheCall.options.messages),
                  TextsOfRoles(SubSeq(TheCall.options.messages,
                                      NewInputFrom(TheCall.options.messages,
                                                   TrailingTools(
                                                     TheCall.options.messages)),
                                      Len(TheCall.options.messages)),
                               {"user", "tool"}))
    ELSE QueryFor(TheCall, <<>>,
                  TextsOfRoles(TheCall.options.messages,
                               {"user", "tool", "assistant"}))

\* a known conversation whose prompt ends with a user message and a tool
\* message: both are in the query
C36_Witness ==
  /\ Called
  /\ TheCall.options.chatId # <<>>
  /\ Len(TheCall.options.messages) = 2
  /\ TheCall.options.messages[1].role = "user"
  /\ TheCall.options.messages[2].role = "tool"
  /\ TheCall.result.ok
  /\ TheCall.result.query = <<"q", "\n\n", "[", "t", " result]: ", "o">>

====
